---- MODULE Spec2Model ----
(***************************************************************************)
(* PlexToolkit: title resolution (toolkit/utils.py, toolkit/ops.py) and    *)
(* collection reconciliation (toolkit/ops.py,                              *)
(* toolkit/services/collection_manager.py).                                *)
(*                                                                         *)
(* Python strings are sequences of one-character strings.  Python's None   *)
(* is NoYear for a year, NoneLine for a line, NoIndex for an index, NoItem *)
(* for an item and None elsewhere.                                         *)
(***************************************************************************)
EXTENDS Integers, Sequences, FiniteSets, TLC

\* ------------------------------------------------------------------ bounds
\* Longest list of raw titles handed to process_and_create_collection.
MaxItems == 2
\* Longest result list one library.search(title) call returns.
MaxResults == 2

\* ------------------------------------------------------------- characters
None == "None"
NoYear == -1
\* None where a string is expected: what read_line returns on Esc or Ctrl+C, a
\* missing title.
NoneLine == <<"None">>

Lowers == <<"a","b","c","d","e","f","g","h","i","j","k","l","m",
            "n","o","p","q","r","s","t","u","v","w","x","y","z">>
Uppers == <<"A","B","C","D","E","F","G","H","I","J","K","L","M",
            "N","O","P","Q","R","S","T","U","V","W","X","Y","Z">>
Digits == <<"0","1","2","3","4","5","6","7","8","9">>

Range(s) == {s[i] : i \in DOMAIN s}

\* Keys get_single_keypress can return besides printable characters.
ESC == "\\x1b"
CTRLC == "\\x03"
ENTER == "\\r"
BACKSPACE == "\\x7f"

\* Three characters outside ASCII: LATIN CAPITAL LETTER I WITH DOT ABOVE, whose
\* lower case is "i" followed by COMBINING DOT ABOVE, and SUPERSCRIPT TWO, which
\* str.isdigit accepts and int() does not.
DOTTED_I == "\\u0130"
COMBINING_DOT == "\\u0307"
SUPERSCRIPT_TWO == "\\u00b2"

\* str.isprintable for one key.
IsPrintable(c) == c \notin {ESC, CTRLC, ENTER, BACKSPACE, "\t"}

LowerSet == Range(Lowers)
UpperSet == Range(Uppers)
DigitSet == Range(Digits)

\* \w of the re module: alphanumeric characters and the underscore; a combining
\* mark is not one.
WordChars == LowerSet \cup UpperSet \cup DigitSet \cup {"_", DOTTED_I, SUPERSCRIPT_TWO}
IsWord(c) == c \in WordChars
\* \s of the re module, and the separators of str.split() and str.strip().
IsSpace(c) == c \in {" ", "\t"}
\* \d of the re module and the digits int() reads; the characters of str.isdigit.
IsDecimal(c) == c \in DigitSet
IsDigit(c) == c \in DigitSet \cup {SUPERSCRIPT_TWO}
DigitVal(c) == (CHOOSE i \in DOMAIN Digits : Digits[i] = c) - 1

\* str.lower, one character and a whole string.
LowerOf == [c \in UpperSet |-> Lowers[CHOOSE i \in DOMAIN Uppers : Uppers[i] = c]]
LowerChar(c) == IF c \in UpperSet THEN LowerOf[c] ELSE c
RECURSIVE LowerEach(_)
LowerEach(s) ==
    IF s = <<>> THEN <<>>
    ELSE (IF Head(s) = DOTTED_I THEN <<"i", COMBINING_DOT>> ELSE <<LowerChar(Head(s))>>)
         \o LowerEach(Tail(s))
Lower(s) ==
    IF \A i \in DOMAIN s : s[i] # DOTTED_I
    THEN [i \in DOMAIN s |-> LowerChar(s[i])]
    ELSE LowerEach(s)

\* str.strip.
RECURSIVE LStrip(_)
LStrip(s) == IF s # <<>> /\ IsSpace(Head(s)) THEN LStrip(Tail(s)) ELSE s
RECURSIVE RStrip(_)
RStrip(s) ==
    IF s # <<>> /\ IsSpace(s[Len(s)]) THEN RStrip(SubSeq(s, 1, Len(s) - 1)) ELSE s
Strip(s) == LStrip(RStrip(s))

\* str.startswith.
StartsWith(s, p) == Len(p) <= Len(s) /\ SubSeq(s, 1, Len(p)) = p

\* A join that leaves the whitespace as it is.
KeepSpaces(s) == s

\* " ".join(s.split()): whitespace runs become one space, the ends are trimmed.
RECURSIVE CollapseSpaces(_)
CollapseSpaces(s) ==
    LET t == LStrip(s) IN
    IF t = <<>> THEN <<>>
    ELSE IF Len(t) >= 2 /\ ~IsSpace(t[1]) /\ IsSpace(t[2])
         THEN LET rest == CollapseSpaces(Tail(t)) IN
              IF rest = <<>> THEN <<t[1]>> ELSE <<t[1], " ">> \o rest
         ELSE <<t[1]>> \o CollapseSpaces(Tail(t))

\* int(s) for a string of decimal digits.
RECURSIVE ParseInt(_)
ParseInt(s) ==
    IF s = <<>> THEN 0 ELSE 10 * ParseInt(SubSeq(s, 1, Len(s) - 1)) + DigitVal(s[Len(s)])

\* ------------------------------------------------- toolkit/utils.py parsers
\* extract_title_and_year: re.search(r"^(.*?)\s*\((\d{4})\)$", text.strip()).
HasYearSuffix(t) ==
    /\ Len(t) >= 6
    /\ t[Len(t)] = ")"
    /\ t[Len(t) - 5] = "("
    /\ \A i \in (Len(t) - 4)..(Len(t) - 1) : IsDecimal(t[i])

extract_title_and_year(text) ==
    LET t == Strip(text) IN
    IF HasYearSuffix(t)
    THEN [title |-> Strip(SubSeq(t, 1, Len(t) - 6)),
          year |-> ParseInt(SubSeq(t, Len(t) - 4, Len(t) - 1))]
    ELSE [title |-> t, year |-> NoYear]

\* normalize_title: re.sub(r"[^\w\s]", "", title).lower(), then " ".join(split()).
normalize_title(title) ==
    IF title = <<>> \/ title = NoneLine THEN <<>>
    ELSE CollapseSpaces(Lower(SelectSeq(title, LAMBDA c : IsWord(c) \/ IsSpace(c))))

\* --------------------------------------------- difflib.SequenceMatcher.ratio
\* Length of the common run of a from i and b from j, inside a[..ahi], b[..bhi].
RECURSIVE RunLen(_, _, _, _, _, _)
RunLen(a, b, i, j, ahi, bhi) ==
    IF i <= ahi /\ j <= bhi /\ a[i] = b[j]
    THEN 1 + RunLen(a, b, i + 1, j + 1, ahi, bhi)
    ELSE 0

\* find_longest_match: the longest block, the earliest in a, then the earliest in b.
LongestMatch(a, b, alo, ahi, blo, bhi) ==
    LET blocks == {[i |-> i, j |-> j, k |-> RunLen(a, b, i, j, ahi, bhi)] :
                     i \in alo..ahi, j \in blo..bhi}
    IN  CHOOSE p \in blocks :
          \A q \in blocks :
             \/ p.k > q.k
             \/ /\ p.k = q.k
                /\ \/ p.i < q.i
                   \/ p.i = q.i /\ p.j <= q.j

\* get_matching_blocks: the total size of the blocks found to the left and right.
RECURSIVE MatchCount(_, _, _, _, _, _)
MatchCount(a, b, alo, ahi, blo, bhi) ==
    IF alo > ahi \/ blo > bhi THEN 0
    ELSE LET m == LongestMatch(a, b, alo, ahi, blo, bhi) IN
         IF m.k = 0 THEN 0
         ELSE m.k + MatchCount(a, b, alo, m.i - 1, blo, m.j - 1)
                  + MatchCount(a, b, m.i + m.k, ahi, m.j + m.k, bhi)

\* ratio() = 2.0 * matches / (len(a) + len(b)), 1.0 for two empty strings; kept as
\* the fraction num/den.
Ratio(a, b) ==
    IF Len(a) + Len(b) = 0 THEN [num |-> 1, den |-> 1]
    ELSE [num |-> 2 * MatchCount(a, b, 1, Len(a), 1, Len(b)), den |-> Len(a) + Len(b)]

RatioGreater(r, s) == r.num * s.den > s.num * r.den

\* The fuzzy threshold of pick_plex_match, 0.85, as ThresholdNum/ThresholdDen.
ThresholdNum == 85
ThresholdDen == 100
AboveThreshold(r) == r.num * ThresholdDen > ThresholdNum * r.den

\* ------------------------------------------------------ toolkit/utils.py input
\* Result of a reader that has not returned yet: the keys typed so far do not end
\* the prompt.
Pending == "Pending"
PendingLine == <<"Pending">>

\* read_line: the keys typed at the prompt, folded into the buffer.
RECURSIVE ReadLineFrom(_, _)
ReadLineFrom(buffer, keys) ==
    IF keys = <<>> THEN PendingLine
    ELSE LET key == Head(keys) IN
         IF key = CTRLC \/ key = ESC THEN NoneLine
         ELSE IF key = ENTER THEN buffer
         ELSE IF key = BACKSPACE
              THEN ReadLineFrom(IF buffer # <<>> THEN SubSeq(buffer, 1, Len(buffer) - 1)
                                ELSE buffer, Tail(keys))
         ELSE IF IsPrintable(key) THEN ReadLineFrom(Append(buffer, key), Tail(keys))
         ELSE ReadLineFrom(buffer, Tail(keys))
read_line(keys) == ReadLineFrom(<<>>, keys)

\* read_menu_choice: the first key that is Esc, Ctrl+C or a valid choice.
RECURSIVE read_menu_choice(_, _)
read_menu_choice(keys, valid_choices) ==
    IF keys = <<>> THEN Pending
    ELSE IF Head(keys) = ESC \/ Head(keys) = CTRLC THEN "ESC"
    ELSE IF Head(keys) \in valid_choices THEN Head(keys)
    ELSE read_menu_choice(Tail(keys), valid_choices)

\* is_escape.
is_escape(value) ==
    /\ value # <<>>
    /\ Lower(Strip(value)) \in {<<"e","s","c">>, <<"e","s","c","a","p","e">>, <<ESC>>}

\* str.isdigit.
IsDigits(s) == s # <<>> /\ \A i \in DOMAIN s : IsDigit(s[i])

\* int(s) raises ValueError unless every character is a decimal digit.
IntRaises(s) == \E i \in DOMAIN s : ~IsDecimal(s[i])

\* One pass of the loop of read_index_or_skip over the line read_line returned:
\* NoIndex (None: skip or cancel), an index in 1..max_index, InvalidIndex
\* ("Invalid number.", prompt again), or RaisedIndex (int(val) raised).
NoIndex == 0
InvalidIndex == -1
RaisedIndex == -2
read_index_or_skip(max_index, line) ==
    IF line = NoneLine THEN NoIndex
    ELSE LET val == Strip(line) IN
         IF is_escape(val) \/ Lower(val) = <<"s">> THEN NoIndex
         ELSE IF IsDigits(val)
              THEN IF IntRaises(val) THEN RaisedIndex
                   ELSE IF 1 <= ParseInt(val) /\ ParseInt(val) <= max_index
                        THEN ParseInt(val)
                        ELSE InvalidIndex
         ELSE InvalidIndex

\* ------------------------------------------------ toolkit/ops.py pick_plex_match
\* Python truthiness of a year: None and 0 are false.
Truthy(year) == year # NoYear /\ year # 0

Abs(n) == IF n < 0 THEN -n ELSE n

\* "1. Year Check": both years truthy and at most one apart.
YearsMatch(search_year, item_year) ==
    Truthy(search_year) /\ Truthy(item_year) /\ Abs(search_year - item_year) <= 1

\* The "continue" of the year check: both years truthy and more than one apart.
YearMismatch(search_year, item_year) ==
    Truthy(search_year) /\ Truthy(item_year) /\ Abs(search_year - item_year) > 1

\* "2. Title Matching Logic": equal, or one a prefix of the other up to a space.
TitleMatch(search_norm, item_norm) ==
    \/ search_norm = item_norm
    \/ StartsWith(item_norm, search_norm \o <<" ">>)
    \/ StartsWith(search_norm, item_norm \o <<" ">>)

\* A fuzzy fallback that does not ask for matching years.
FuzzyMatchAnyYear(search_norm, item_norm, years_match) ==
    AboveThreshold(Ratio(search_norm, item_norm))

\* The fuzzy fallback: only with matching years, ratio > 0.85.
FuzzyMatch(search_norm, item_norm, years_match) ==
    years_match /\ AboveThreshold(Ratio(search_norm, item_norm))

\* Whether the loop body appends item to good_matches.
IsGoodMatch(search_norm, search_year, item) ==
    LET item_norm == normalize_title(item.title) IN
    /\ ~YearMismatch(search_year, item.year)
    /\ \/ TitleMatch(search_norm, item_norm)
       \/ FuzzyMatch(search_norm, item_norm, YearsMatch(search_year, item.year))

\* good_matches before the sort, in the order of results.
GoodMatches(raw_title, results) ==
    LET q == extract_title_and_year(raw_title)
        search_norm == normalize_title(q.title)
    IN  SelectSeq(results, LAMBDA item : IsGoodMatch(search_norm, q.year, item))

\* list.sort(key=ratio, reverse=True): the key is computed once per item; the sort
\* is stable, the larger ratio first.
RECURSIVE InsertByRatio(_, _)
InsertByRatio(sorted, keyed) ==
    IF sorted = <<>> THEN <<keyed>>
    ELSE IF RatioGreater(keyed.key, Head(sorted).key)
         THEN <<keyed>> \o sorted
         ELSE <<Head(sorted)>> \o InsertByRatio(Tail(sorted), keyed)

RECURSIVE SortKeyed(_)
SortKeyed(keyed) ==
    IF keyed = <<>> THEN <<>>
    ELSE InsertByRatio(SortKeyed(SubSeq(keyed, 1, Len(keyed) - 1)), keyed[Len(keyed)])

\* A list left in the order of the search.
Unsorted(matches, search_norm) == matches

SortByRatio(matches, search_norm) ==
    LET keyed == [i \in DOMAIN matches |->
                    [key |-> Ratio(search_norm, normalize_title(matches[i].title)),
                     item |-> matches[i]]]
        sorted == SortKeyed(keyed)
    IN  [i \in DOMAIN sorted |-> sorted[i].item]

SearchNorm(raw_title) == normalize_title(extract_title_and_year(raw_title).title)

\* good_matches after the sort.
RankedMatches(raw_title, results) ==
    SortByRatio(GoodMatches(raw_title, results), SearchNorm(raw_title))

\* A rule that returns the best match whatever it is.
AcceptAny(raw_title, ranked) == TRUE

\* A rule that returns the best match unasked only when it is the only one.
OnlyOne(raw_title, ranked) == Len(ranked) = 1

\* "If only one match, or the best match is an exact title match, return it
\* automatically."
AutoAccept(raw_title, ranked) ==
    \/ Len(ranked) = 1
    \/ normalize_title(ranked[1].title) = SearchNorm(raw_title)

\* ------------------------------------------------------------- the catalog
Movie(title, year, key) == [title |-> title, year |-> year, ratingKey |-> key]
\* pick_plex_match returning None.
NoItem == Movie(<<>>, NoYear, "")

\* The movies of the library section.
Catalog ==
    { Movie(<<"A","l","i","e","n">>, 1979, "k1"),
      Movie(<<"A","l","i","e","n","s">>, NoYear, "k2"),
      Movie(<<"A","L","I","E","N","!">>, 1981, "k3"),
      Movie(<<"A","l","i","e","n"," ","3">>, 1980, "k4") }

\* The raw titles a list handed to process_and_create_collection is made of.
RawTitles ==
    { <<"A","l","i","e","n"," ","(","1","9","7","9",")">>,
      <<"A","l","i","e","n">>,
      <<"a","l","i","e","n","s"," ","(","1","9","8","0",")">>,
      <<"A","l","i","e","n"," ","(","0","0","0","0",")">> }

\* Sequences over S of length at most n, and those of them without repetition.
RECURSIVE SeqsUpTo(_, _)
SeqsUpTo(S, n) ==
    IF n = 0 THEN {<<>>}
    ELSE LET shorter == SeqsUpTo(S, n - 1) IN
         shorter \cup {Append(q, x) : q \in shorter, x \in S}
DistinctSeqs(S, n) ==
    {q \in SeqsUpTo(S, n) : \A i, j \in DOMAIN q : i # j => q[i] # q[j]}

\* An item that comes back from a search without a ratingKey:
\* str(getattr(chosen, "ratingKey", "")) is then the empty string.
Keyless == Movie(<<"A","l","i","e","n","s">>, 1980, "")

\* What one library.search(title) call can return: the server may over-return, in
\* any order; or the keyless item alone.
SearchResults == DistinctSeqs(Catalog, MaxResults) \cup {<<Keyless>>}

\* The name of the collection to build, and the filter of a smart collection.
TargetName == <<"A","2","4">>
StudioFilter == "studio=A24"

Collection(id, title, smart, members, rule) ==
    [id |-> id, title |-> title, smart |-> smart, members |-> members, rule |-> rule]

\* The collections the library can hold when the operation starts.
InitialCollections ==
    { {},
      {Collection(1, <<"a","2","4">>, FALSE, {"k1", "k4"}, None)},
      {Collection(1, <<"A","2","4">>, TRUE, {}, "studio=Old")},
      {Collection(1, <<"A","2","4","+">>, FALSE, {"k2"}, None)},
      {Collection(1, <<"A","2","4","+">>, FALSE, {"k2"}, None),
       Collection(2, <<"A","2","4">>, FALSE, {"k1"}, None)} }

\* Whether sub occurs in s.
Contains(s, sub) ==
    \E i \in 1..(Len(s) - Len(sub) + 1) : SubSeq(s, i, i + Len(sub) - 1) = sub

\* library.search(title=name, libtype="collection"): the collections whose title
\* contains name, ignoring case, in an order the server chooses.
CollectionSearchResults(colls, name) ==
    LET hits == {c \in colls : Contains(Lower(c.title), Lower(name))} IN
    {q \in DistinctSeqs(hits, Cardinality(hits)) : Len(q) = Cardinality(hits)}

\* Keys typed at a y/n prompt read by read_line.
YesNoKeys ==
    { <<"y", ENTER>>, <<"Y", ENTER>>, <<"n", ENTER>>, <<ENTER>>, <<ESC>>, <<CTRLC>>,
      <<" ", "y", ENTER>>, <<"n", BACKSPACE, "y", ENTER>> }
\* Keys typed at a menu read by read_menu_choice.
MenuKeys ==
    { <<"a">>, <<"A">>, <<"o">>, <<"O">>, <<"c">>, <<"C">>, <<ESC>>, <<CTRLC>>,
      <<"x", "a">>, <<"x", "o">>, <<"x">> }
\* Keys typed at the disambiguation prompt read by read_index_or_skip.
PickKeys ==
    { <<"1", ENTER>>, <<"2", ENTER>>, <<"3", ENTER>>, <<"0", ENTER>>, <<"1", "2", ENTER>>,
      <<" ", "2", ENTER>>, <<"s", ENTER>>, <<"S", ENTER>>, <<"x", ENTER>>, <<ENTER>>,
      <<"e", "s", "c", ENTER>>, <<SUPERSCRIPT_TWO, ENTER>>, <<ESC>>, <<CTRLC>> }

\* Invalid answers at one disambiguation prompt before the model stops counting.
MaxInvalid == 1

\* ------------------------------------------------------------------- state
VARIABLES
    pc,                 \* where process_and_create_collection stands
    entry,              \* the function that was called
    config_ok,          \* the Plex token and URL are both configured
    collection_name,    \* argument collection_name
    items,              \* argument items: raw titles, or Plex items if pre-matched
    is_pre_matched,     \* argument is_pre_matched
    smart_filter,       \* argument smart_filter, None if absent
    collections,        \* the collections of the library on the server
    idx,                \* titles _match_movies_in_plex has finished
    found_movies,       \* found_movies
    not_found,          \* not_found
    seen_rating_keys,   \* seen_rating_keys
    raw_title,          \* raw_title of the last pick_plex_match
    results,            \* results of the last library.search(title)
    good_matches,       \* good_matches of the last pick_plex_match, sorted
    existing,           \* the collection(s) a lookup found: existing / existing_collection
    trace,              \* catalog calls, prompts and answers, in order
    output,             \* messages printed
    result,             \* what a CollectionManager method returned
    fn_call,            \* a call of one function of toolkit/utils.py on its own
    cancel,             \* the Esc pressed at a disambiguation prompt, if any
    invalid_count,      \* invalid answers at the current disambiguation prompt
    titles,             \* PlexManager.find_movies: argument titles
    futures,            \* the futures of executor.map, one per title
    matched,            \* matched
    yielded,            \* the futures whose result the loop over map has taken
    buffer,             \* InputHandler.read_line: buffer
    cursor_pos,         \* cursor_pos
    key,                \* the key read last
    read_result         \* what read_line returned

vars == <<pc, entry, config_ok, collection_name, items, is_pre_matched, smart_filter,
          collections, idx, found_movies, not_found, seen_rating_keys, raw_title,
          results, good_matches, existing, trace, output, result, fn_call,
          cancel, invalid_count, titles, futures, matched, yielded,
          buffer, cursor_pos, key, read_result>>

pool == <<titles, futures, matched, yielded>>
editor == <<buffer, cursor_pos, key, read_result>>
inputs == <<entry, config_ok, collection_name, items, is_pre_matched, smart_filter, fn_call,
            pool, editor>>
matcher == <<idx, found_movies, not_found, seen_rating_keys>>
picker == <<raw_title, results, good_matches, invalid_count>>

Event(kind, name, arg, ok) == [kind |-> kind, name |-> name, arg |-> arg, ok |-> ok]
Call(kind, name, arg, ok) == Event(kind, name, arg, ok)
Prompt(tag) == Event("prompt", <<>>, tag, TRUE)
Answer(tag) == Event("answer", <<>>, tag, TRUE)
\* An answer with the line read_line returned for it.
AnswerLine(tag, line) == Event("answer", line, tag, TRUE)
Out(msg, n) == [msg |-> msg, n |-> n]

\* A return value: a string, or the (added, skipped) tuple of append_items.
Returned(value) == [value |-> value, added |-> 0, skipped |-> 0]
Counts(added, skipped) == [value |-> "tuple", added |-> added, skipped |-> skipped]

\* A function called on its own: its arguments, what it returned (out, and year
\* for extract_title_and_year), and for normalize_title what it returned when
\* given its own result.
CallOf(fn, text, listed) ==
    [fn |-> fn, stage |-> "called", text |-> text, listed |-> listed,
     out |-> <<>>, year |-> NoYear, again |-> <<>>, index |-> NoIndex, chosen |-> NoItem]
NoCall == [CallOf("", <<>>, <<>>) EXCEPT !.stage = "none"]

\* Nothing has run yet.
AtRest ==
    /\ raw_title = <<>>
    /\ result = Returned(None)
    /\ idx = 0
    /\ found_movies = <<>>
    /\ not_found = <<>>
    /\ seen_rating_keys = {}
    /\ results = <<>>
    /\ good_matches = <<>>
    /\ existing = <<>>
    /\ trace = <<>>
    /\ output = <<>>
    /\ cancel = <<>>
    /\ invalid_count = 0

\* PlexManager.find_movies and InputHandler.read_line have not been called.
NotCalled(group) ==
    IF group = "find_movies"
    THEN titles = <<>> /\ futures = <<>> /\ matched = <<>> /\ yielded = {}
    ELSE buffer = <<>> /\ cursor_pos = 0 /\ key = "" /\ read_result = NoneLine

\* The operation starts in process_and_create_collection, or in one of the two
\* CollectionManager methods, which take a name and a list of Plex items.
Init ==
    /\ pc \in {"start", "cm_handle", "cm_append"}
    /\ entry = pc
    /\ config_ok \in IF pc = "start" THEN BOOLEAN ELSE {TRUE}
    /\ collection_name = TargetName
    /\ is_pre_matched \in IF pc = "start" THEN BOOLEAN ELSE {TRUE}
    /\ items \in IF is_pre_matched THEN DistinctSeqs(Catalog, MaxItems)
                 ELSE SeqsUpTo(RawTitles, MaxItems)
    /\ smart_filter \in IF pc = "start" THEN {None, StudioFilter} ELSE {None}
    /\ collections \in InitialCollections
    /\ fn_call = NoCall
    /\ AtRest
    /\ NotCalled("find_movies")
    /\ NotCalled("read_line")

\* ------------------------------------------- process_and_create_collection
\* "--- Static Collection Logic ---": found_movies = items when pre-matched, else
\* _match_movies_in_plex starts (and ends at once on an empty list).
EnterStatic ==
    IF is_pre_matched
    THEN /\ found_movies' = items
         /\ pc' = "matched"
         /\ UNCHANGED <<idx, not_found, seen_rating_keys>>
    ELSE /\ found_movies' = <<>>
         /\ not_found' = <<>>
         /\ seen_rating_keys' = {}
         /\ idx' = 0
         /\ pc' = IF items = <<>> THEN "matched" ELSE "match_loop"

\* Truthiness of the value _process_smart_collection returns: True is handled,
\* False and None are not.
SmartCancelReturn == None
SmartDeclineReturn == None
SmartFallbackReturn == "False"
SmartHandledReturn == "True"
WasHandled(returned) == returned = "True"

\* A connection step that goes on whatever came back.
ConnectedAlways(outcome) == TRUE

\* Lines 336-347: the try block got a library: get_plex_manager did not raise and
\* get_movie_library returned one.
Connected(outcome) == outcome = "ok"

\* Lines 329-357: configuration, connection, library, then the smart or static branch.
Start ==
    /\ pc = "start"
    /\ UNCHANGED <<inputs, collections, picker, existing, cancel, result>>
    /\ IF ~config_ok
       THEN /\ pc' = "returned"
            /\ output' = Append(output, Out("MissingTokenOrUrl", 0))
            /\ UNCHANGED <<matcher, trace>>
       ELSE \E connected \in {"ok", "failed", "no_library"} :
            /\ trace' = Append(trace, Call("connect", <<>>, connected, connected = "ok"))
            /\ IF ~Connected(connected)
               THEN /\ pc' = "returned"
                    /\ output' = Append(output, Out("CouldNotConnect", 0))
                    /\ UNCHANGED matcher
               ELSE /\ UNCHANGED output
                    /\ IF smart_filter # None
                       THEN pc' = "smart_lookup" /\ UNCHANGED matcher
                       ELSE EnterStatic

\* _process_smart_collection, lines 135-155: look the name up, ask before overwriting.
SmartLookup ==
    /\ pc = "smart_lookup"
    /\ UNCHANGED <<inputs, collections, matcher, picker, cancel, output, result>>
    /\ \/ /\ trace' = Append(trace, Call("searchCollections", collection_name, None, FALSE))
          /\ pc' = "raised"
          /\ UNCHANGED existing
       \/ \E found \in CollectionSearchResults(collections, collection_name) :
          /\ existing' = found
          /\ IF found # <<>>
             THEN /\ pc' = "smart_prompt"
                  /\ trace' = trace \o <<Call("searchCollections", collection_name, None, TRUE),
                                         Prompt("smart_overwrite")>>
             ELSE /\ pc' = "smart_create"
                  /\ trace' = Append(trace, Call("searchCollections", collection_name, None, TRUE))

\* confirm and confirm.lower() == "y"
SaidYes(line) == line # NoneLine /\ line # <<>> /\ Lower(line) = <<"y">>
\* A confirmation that takes any line for a yes.
SaidAnything(line) == TRUE
\* not confirm or confirm.strip().lower() != "y", negated
SaidYesStripped(line) == line # NoneLine /\ line # <<>> /\ Lower(Strip(line)) = <<"y">>

DeleteCollection(colls, c) == {x \in colls : x.id # c.id}

\* An accepted Overwrite that deletes nothing.
OverwriteStepsNoDelete(c, ok) == <<Answer("overwrite")>>

\* What an accepted Overwrite issues first: the delete of the collection found.
OverwriteSteps(c, ok) == <<Answer("overwrite"), Call("delete", c.title, None, ok)>>

\* Lines 155-161: the answer to "Overwrite existing collection? (y/n)".
SmartOverwriteAnswer ==
    /\ pc = "smart_prompt"
    /\ UNCHANGED <<inputs, picker, existing, cancel, result>>
    /\ \E keys \in YesNoKeys :
       LET confirm == read_line(keys) IN
       /\ confirm # PendingLine
       /\ IF SaidYes(confirm)
          THEN /\ UNCHANGED <<matcher, output>>
               /\ \/ /\ trace' = trace \o OverwriteSteps(existing[1], FALSE)
                     /\ pc' = "raised"
                     /\ UNCHANGED collections
                  \/ /\ trace' = trace \o OverwriteSteps(existing[1], TRUE)
                     /\ collections' = DeleteCollection(collections, existing[1])
                     /\ pc' = "smart_create"
          ELSE /\ trace' = Append(trace, Answer("cancel"))
               /\ output' = Append(output, Out("Canceled", 0))
               /\ UNCHANGED collections
               /\ IF WasHandled(SmartCancelReturn)
                  THEN pc' = "returned" /\ UNCHANGED matcher
                  ELSE EnterStatic

\* The key the server gives a new collection.
NextId(colls) ==
    IF colls = {} THEN 1
    ELSE 1 + CHOOSE n \in {c.id : c \in colls} : \A c \in colls : c.id <= n

\* A handler that takes every failure for a missing capability.
AnyError(outcome) == TRUE

\* Lines 168-169: the exception is an AttributeError that names
\* createSmartCollection.
CapabilityMissing(outcome) == outcome = "no_capability"

\* Lines 163-197: createSmartCollection, the direct-API fallback, the static offer.
\* The trace holds the call and, when it raised, what it raised.
SmartCreate ==
    /\ pc = "smart_create"
    /\ UNCHANGED <<inputs, matcher, picker, existing, cancel, result>>
    /\ \E outcome \in {"ok", "no_capability", "attribute_error", "error"} :
       LET call == Call("createSmartCollection", collection_name, smart_filter, outcome = "ok")
           raised == Event("raised", <<>>, outcome, FALSE)
           fresh == Collection(NextId(collections), collection_name, TRUE, {}, smart_filter)
       IN
       IF outcome = "ok"
       THEN /\ trace' = Append(trace, call)
            /\ collections' = collections \cup {fresh}
            /\ output' = Append(output, Out("SmartCreated", 0))
            /\ pc' = "returned"
       ELSE IF CapabilityMissing(outcome)
       THEN \/ /\ trace' = trace \o <<call, raised,
                                      Call("fallbackPost", collection_name, smart_filter, TRUE)>>
               /\ collections' = collections \cup {fresh}
               /\ output' = Append(output, Out("SmartCreatedFallback", 0))
               /\ pc' = "returned"
            \/ /\ trace' = trace \o <<call, raised,
                                      Call("fallbackPost", collection_name, smart_filter, FALSE),
                                      Prompt("static_offer")>>
               /\ output' = Append(output, Out("FallbackFailed", 0))
               /\ pc' = "static_offer"
               /\ UNCHANGED collections
       ELSE /\ trace' = trace \o <<call, raised>>
            /\ output' = Append(output, Out("FailedSmart", 0))
            /\ pc' = "returned"
            /\ UNCHANGED collections

\* Lines 182-191: the answer to "Create a standard (static) collection instead?".
StaticOfferAnswer ==
    /\ pc = "static_offer"
    /\ UNCHANGED <<inputs, collections, picker, existing, cancel, result>>
    /\ \E keys \in YesNoKeys :
       LET fallback == read_line(keys)
           returned == IF SaidYes(fallback) THEN SmartFallbackReturn ELSE SmartDeclineReturn
       IN
       /\ fallback # PendingLine
       /\ trace' = Append(trace, Answer(IF SaidYes(fallback) THEN "static" ELSE "decline"))
       /\ output' = IF SaidYes(fallback) THEN Append(output, Out("ProceedingStatic", 0))
                    ELSE output
       /\ IF WasHandled(returned)
          THEN pc' = "returned" /\ UNCHANGED matcher
          ELSE EnterStatic

\* ------------------------------------------------------ _match_movies_in_plex
\* A test of the key that does not look at seen_rating_keys.
IsNewKeyUnseen(rating_key, seen) == rating_key # ""

\* "if rating_key and rating_key not in seen_rating_keys"
IsNewKey(rating_key, seen) == rating_key # "" /\ rating_key \notin seen

\* The locals of pick_plex_match once the title is settled: kept while the loop
\* goes on, gone when _match_movies_in_plex returns.
KeepLocals(raw, res, ranked) ==
    IF idx + 1 = Len(items)
    THEN raw_title' = <<>> /\ results' = <<>> /\ good_matches' = <<>>
    ELSE raw_title' = raw /\ results' = res /\ good_matches' = ranked

\* An except branch that drops the title.
OnSearchErrorDrop(unmatched, raw) == unmatched

\* Lines 318-320: the except branch, "not_found.append(raw)".
OnSearchError(unmatched, raw) == Append(unmatched, raw)

\* Lines 311-317 and the loop's advance: what one title adds to the lists.
Account(raw, chosen) ==
    /\ IF chosen = NoItem
       THEN /\ not_found' = Append(not_found, raw)
            /\ UNCHANGED <<found_movies, seen_rating_keys>>
       ELSE IF IsNewKey(chosen.ratingKey, seen_rating_keys)
       THEN /\ seen_rating_keys' = seen_rating_keys \cup {chosen.ratingKey}
            /\ found_movies' = Append(found_movies, chosen)
            /\ UNCHANGED not_found
       ELSE UNCHANGED <<found_movies, not_found, seen_rating_keys>>
    /\ idx' = idx + 1
    /\ pc' = IF idx + 1 = Len(items) THEN "matched" ELSE "match_loop"

\* Lines 305-320, one title: search, pick_plex_match up to its prompt, account.
MatchStep ==
    /\ pc = "match_loop"
    /\ UNCHANGED <<inputs, collections, existing, cancel, invalid_count, result>>
    /\ LET raw == items[idx + 1]
           title == extract_title_and_year(raw).title
       IN
       \/ /\ trace' = Append(trace, Call("search", title, None, FALSE))
          /\ output' = Append(output, Out("ErrorSearching", 0))
          /\ not_found' = OnSearchError(not_found, raw)
          /\ idx' = idx + 1
          /\ pc' = IF idx + 1 = Len(items) THEN "matched" ELSE "match_loop"
          /\ KeepLocals(<<>>, <<>>, <<>>)
          /\ UNCHANGED <<found_movies, seen_rating_keys>>
       \/ \E res \in SearchResults : \E ranked \in {RankedMatches(raw, res)} :
          /\ UNCHANGED output
          /\ IF ranked = <<>>
             THEN /\ Account(raw, NoItem)
                  /\ KeepLocals(raw, res, ranked)
                  /\ trace' = Append(trace, Call("search", title, None, TRUE))
             ELSE IF AutoAccept(raw, ranked)
             THEN /\ Account(raw, ranked[1])
                  /\ KeepLocals(raw, res, ranked)
                  /\ trace' = Append(trace, Call("search", title, None, TRUE))
             ELSE /\ pc' = "pick_prompt"
                  /\ raw_title' = raw
                  /\ results' = res
                  /\ good_matches' = ranked
                  /\ trace' = trace \o <<Call("search", title, None, TRUE), Prompt("pick")>>
                  /\ UNCHANGED matcher

\* Line 91: "return good_matches[idx - 1]", index counted from 1.
Chosen(matches, index) == matches[index]

\* Lines 86-91 with read_index_or_skip: one line typed at the disambiguation prompt.
PickAnswer ==
    /\ pc = "pick_prompt"
    /\ UNCHANGED <<inputs, collections, existing, result>>
    /\ \E keys \in PickKeys :
       LET line == read_line(keys)
           picked == read_index_or_skip(Len(good_matches), line)
           raw == items[idx + 1]
       IN
       /\ line # PendingLine
       /\ IF picked = InvalidIndex
          THEN /\ invalid_count < MaxInvalid
               /\ invalid_count' = invalid_count + 1
               /\ output' = Append(output, Out("InvalidNumber", 0))
               /\ trace' = Append(trace, Answer("invalid"))
               /\ UNCHANGED <<pc, matcher, cancel, raw_title, results, good_matches>>
          ELSE IF picked = RaisedIndex
          THEN /\ invalid_count' = 0
               /\ output' = Append(output, Out("ErrorSearching", 0))
               /\ trace' = Append(trace, Answer("raised"))
               /\ not_found' = OnSearchError(not_found, raw)
               /\ idx' = idx + 1
               /\ pc' = IF idx + 1 = Len(items) THEN "matched" ELSE "match_loop"
               /\ KeepLocals(raw, results, good_matches)
               /\ UNCHANGED <<found_movies, seen_rating_keys, cancel>>
          ELSE /\ invalid_count' = 0
               /\ UNCHANGED output
               /\ trace' = Append(trace, Answer(IF picked # NoIndex THEN "index"
                                                ELSE IF keys[Len(keys)] = ESC THEN "esc"
                                                ELSE "skip"))
               /\ cancel' = IF keys[Len(keys)] = ESC
                            THEN <<[at |-> Len(trace) + 1, raw |-> raw,
                                    unmatched |-> Len(not_found)]>>
                            ELSE cancel
               /\ Account(raw, IF picked = NoIndex THEN NoItem
                               ELSE Chosen(good_matches, picked))
               /\ KeepLocals(raw, results, good_matches)

\* ------------------------------------------------ _handle_existing_collection
\* next(c for c in existing_collections if c.title.lower() == name.lower()), as a
\* list of at most one collection.
RECURSIVE FirstExact(_, _)
FirstExact(found, name) ==
    IF found = <<>> THEN <<>>
    ELSE IF Lower(Head(found).title) = Lower(name) THEN <<Head(found)>>
    ELSE FirstExact(Tail(found), name)

\* Lines 372-393 and 206-237: report, stop without matches, look the name up, ask.
AfterMatch ==
    /\ pc = "matched"
    /\ UNCHANGED <<inputs, collections, matcher, picker, cancel, result>>
    /\ IF found_movies = <<>>
       THEN /\ pc' = "returned"
            /\ output' = Append(output, Out("NoValidMatches", 0))
            /\ UNCHANGED <<trace, existing>>
       ELSE /\ output' = Append(output, Out("Found", Len(found_movies)))
            /\ \/ /\ trace' = Append(trace, Call("searchCollections", collection_name, None, FALSE))
                  /\ pc' = "raised"
                  /\ UNCHANGED existing
               \/ \E found \in CollectionSearchResults(collections, collection_name) :
                  LET existing_collection == FirstExact(found, collection_name) IN
                  /\ existing' = existing_collection
                  /\ IF existing_collection = <<>>
                     THEN /\ pc' = "confirm_prompt"
                          /\ trace' = trace \o <<Call("searchCollections", collection_name, None, TRUE),
                                                 Prompt("confirm")>>
                     ELSE /\ pc' = "existing_prompt"
                          /\ trace' = trace \o <<Call("searchCollections", collection_name, None, TRUE),
                                                 Prompt(IF existing_collection[1].smart
                                                        THEN "overwrite_cancel"
                                                        ELSE "append_overwrite_cancel")>>

\* The choices read_menu_choice accepts at each of the two menus.
SmartChoices == {"o", "O", "c", "C"}
StaticChoices == {"a", "A", "o", "O", "c", "C"}
\* A menu that accepts Append whatever the collection is.
AnyChoices(is_smart) == StaticChoices

ValidChoices(is_smart) == IF is_smart THEN SmartChoices ELSE StaticChoices

\* An Append that adds every matched movie.
ToAddAll(movies, current_keys) == movies

\* Lines 249-255: the matched movies that are not members yet.
ToAdd(movies, current_keys) == SelectSeq(movies, LAMBDA m : m.ratingKey \notin current_keys)

KeysOf(movies) == {movies[i].ratingKey : i \in DOMAIN movies}

\* The collection as the server holds it now.
Live(c) == CHOOSE x \in collections : x.id = c.id

AddMembers(colls, c, keys) ==
    (colls \ {c}) \cup {[c EXCEPT !.members = @ \cup keys]}

\* Lines 244-277: the try block of Append on the collection c with the matched
\* movies: the calls issued, the lines printed, the collections afterwards and
\* whether the block finished without an exception.
AppendOutcomes(colls, c, movies) ==
    LET to_add == ToAdd(movies, c.members)
        skipped == Len(movies) - Len(to_add)
        read(ok) == Call("items", c.title, None, ok)
        add(ok) == Call("addItems", c.title, to_add, ok)
        already == IF skipped > 0 THEN <<Out("AlreadyIn", skipped)>> ELSE <<>>
        failed == <<Out("FailedAppend", 0)>>
    IN
    {[calls |-> <<read(FALSE)>>, printed |-> failed, colls |-> colls,
      ok |-> FALSE, added |-> 0, skipped |-> 0]}
    \cup
    (IF to_add = <<>>
     THEN {[calls |-> <<read(TRUE)>>, printed |-> <<Out("NoNew", 0)>> \o already,
            colls |-> colls, ok |-> TRUE, added |-> 0, skipped |-> skipped]}
     ELSE {[calls |-> <<read(TRUE), add(TRUE)>>,
            printed |-> <<Out("Added", Len(to_add))>> \o already,
            colls |-> AddMembers(colls, c, KeysOf(to_add)),
            ok |-> TRUE, added |-> Len(to_add), skipped |-> skipped],
           [calls |-> <<read(TRUE), add(FALSE)>>, printed |-> failed,
            colls |-> colls, ok |-> FALSE, added |-> 0, skipped |-> 0]})

\* Lines 239-288: the answer to the Append/Overwrite/Cancel menu.
ExistingAnswer ==
    /\ pc = "existing_prompt"
    /\ UNCHANGED <<inputs, matcher, picker, existing, cancel, result>>
    /\ \E keys \in MenuKeys :
       LET existing_collection == existing[1]
           choice == read_menu_choice(keys, ValidChoices(existing_collection.smart))
       IN
       /\ choice # Pending
       /\ IF choice \in {"c", "C", "ESC"}
          THEN /\ trace' = Append(trace, Answer("cancel"))
               /\ output' = Append(output, Out("Canceled", 0))
               /\ pc' = "returned"
               /\ UNCHANGED collections
          ELSE IF choice \in {"a", "A"}
          THEN \E o \in AppendOutcomes(collections, Live(existing_collection), found_movies) :
               /\ pc' = "returned"
               /\ trace' = trace \o <<Answer("append")>> \o o.calls
               /\ output' = output \o o.printed
               /\ collections' = o.colls
          ELSE /\ UNCHANGED output
               /\ \/ /\ trace' = trace \o OverwriteSteps(existing_collection, FALSE)
                     /\ pc' = "raised"
                     /\ UNCHANGED collections
                  \/ /\ trace' = trace \o OverwriteSteps(existing_collection, TRUE)
                                       \o <<Prompt("confirm")>>
                     /\ collections' = DeleteCollection(collections, existing_collection)
                     /\ pc' = "confirm_prompt"

\* Lines 394-409: the answer to "Proceed to create collection with these movies?".
ConfirmAnswer ==
    /\ pc = "confirm_prompt"
    /\ UNCHANGED <<inputs, matcher, picker, existing, cancel, result>>
    /\ pc' = "returned"
    /\ \E keys \in YesNoKeys :
       LET confirm == read_line(keys) IN
       /\ confirm # PendingLine
       /\ IF ~SaidYesStripped(confirm)
          THEN /\ trace' = Append(trace, AnswerLine("abort", confirm))
               /\ output' = Append(output, Out("Aborted", 0))
               /\ UNCHANGED collections
          ELSE \/ /\ trace' = trace \o <<AnswerLine("yes", confirm),
                                         Call("createCollection", collection_name, found_movies, TRUE)>>
                  /\ output' = Append(output, Out("Created", Len(found_movies)))
                  /\ collections' = collections \cup
                        {Collection(NextId(collections), collection_name, FALSE,
                                    KeysOf(found_movies), None)}
               \/ /\ trace' = trace \o <<AnswerLine("yes", confirm),
                                         Call("createCollection", collection_name, found_movies, FALSE)>>
                  /\ output' = Append(output, Out("FailedCreate", 0))
                  /\ UNCHANGED collections

\* ----------------------------------------------------------- CollectionManager
\* find_collection on what the server's search returned, as a list of at most
\* one collection.
find_collection(found, name) == FirstExact(found, name)

\* is_smart_collection
is_smart_collection(collection) == collection.smart

\* append_items after its search returned `found`: what it calls, prints,
\* leaves on the server and returns.
append_items(colls, found, name, movies) ==
    LET collection == find_collection(found, name)
        quiet(printed) == [calls |-> <<>>, printed |-> printed, colls |-> colls,
                           result |-> Returned(None)]
    IN
    IF collection = <<>> THEN {quiet(<<>>)}
    ELSE IF is_smart_collection(collection[1])
    THEN {quiet(<<Out("CannotAppendSmart", 0)>>)}
    ELSE {[calls |-> o.calls, printed |-> o.printed, colls |-> o.colls,
           result |-> IF o.ok THEN Counts(o.added, o.skipped) ELSE Returned(None)] :
          o \in AppendOutcomes(colls, collection[1], movies)}

\* delete_collection after its search returned `found`.
delete_collection(colls, found, name) ==
    LET collection == find_collection(found, name) IN
    IF collection = <<>>
    THEN {[calls |-> <<>>, printed |-> <<>>, colls |-> colls, result |-> Returned("False")]}
    ELSE {[calls |-> <<Call("delete", collection[1].title, None, TRUE)>>,
           printed |-> <<Out("Deleted", 0)>>,
           colls |-> DeleteCollection(colls, collection[1]),
           result |-> Returned("True")],
          [calls |-> <<Call("delete", collection[1].title, None, FALSE)>>,
           printed |-> <<Out("FailedDelete", 0)>>,
           colls |-> colls,
           result |-> Returned("False")]}

SearchCall(ok) == Call("searchCollections", collection_name, None, ok)

\* A direct call of CollectionManager.append_items(collection_name, items).
CmAppend ==
    /\ pc = "cm_append"
    /\ UNCHANGED <<inputs, matcher, picker, cancel>>
    /\ \/ /\ trace' = Append(trace, SearchCall(FALSE))
          /\ pc' = "raised"
          /\ UNCHANGED <<collections, output, result, existing>>
       \/ \E found \in CollectionSearchResults(collections, collection_name) :
          \E o \in append_items(collections, found, collection_name, items) :
             /\ existing' = find_collection(found, collection_name)
             /\ trace' = trace \o <<SearchCall(TRUE)>> \o o.calls
             /\ output' = output \o o.printed
             /\ collections' = o.colls
             /\ result' = o.result
             /\ pc' = "returned"

\* handle_existing_collection up to its menu (lines 332-358).
CmHandle ==
    /\ pc = "cm_handle"
    /\ UNCHANGED <<inputs, collections, matcher, picker, cancel, output>>
    /\ \/ /\ trace' = Append(trace, SearchCall(FALSE))
          /\ pc' = "raised"
          /\ UNCHANGED <<existing, result>>
       \/ \E found \in CollectionSearchResults(collections, collection_name) :
          LET existing_collection == find_collection(found, collection_name) IN
          /\ existing' = existing_collection
          /\ IF existing_collection = <<>>
             THEN /\ pc' = "returned"
                  /\ result' = Returned("proceed")
                  /\ trace' = Append(trace, SearchCall(TRUE))
             ELSE /\ pc' = "cm_prompt"
                  /\ UNCHANGED result
                  /\ trace' = trace \o <<SearchCall(TRUE),
                                         Prompt(IF is_smart_collection(existing_collection[1])
                                                THEN "overwrite_cancel"
                                                ELSE "append_overwrite_cancel")>>

\* handle_existing_collection from the menu's answer on (lines 360-379).
CmAnswer ==
    /\ pc = "cm_prompt"
    /\ UNCHANGED <<inputs, matcher, picker, existing, cancel>>
    /\ \E keys \in MenuKeys :
       LET choice == read_menu_choice(keys, ValidChoices(is_smart_collection(existing[1]))) IN
       /\ choice # Pending
       /\ IF choice \in {"c", "C", "ESC"}
          THEN /\ trace' = Append(trace, Answer("cancel"))
               /\ output' = Append(output, Out("Canceled", 0))
               /\ result' = Returned("cancel")
               /\ pc' = "returned"
               /\ UNCHANGED collections
          ELSE LET answer == IF choice \in {"a", "A"} THEN "append" ELSE "overwrite" IN
               \/ /\ trace' = trace \o <<Answer(answer), SearchCall(FALSE)>>
                  /\ pc' = "raised"
                  /\ UNCHANGED <<collections, output, result>>
               \/ \E found \in CollectionSearchResults(collections, collection_name) :
                  \E o \in IF answer = "append"
                           THEN append_items(collections, found, collection_name, items)
                           ELSE delete_collection(collections, found, collection_name) :
                     /\ trace' = trace \o <<Answer(answer), SearchCall(TRUE)>> \o o.calls
                     /\ output' = output \o o.printed
                     /\ collections' = o.colls
                     /\ pc' = "returned"
                     /\ result' = IF answer = "overwrite" THEN Returned("overwrite")
                                  ELSE IF o.result.value = "tuple" THEN Returned("append")
                                  ELSE Returned("cancel")

Next ==
    \/ Start
    \/ SmartLookup
    \/ SmartOverwriteAnswer
    \/ SmartCreate
    \/ StaticOfferAnswer
    \/ MatchStep
    \/ PickAnswer
    \/ AfterMatch
    \/ ExistingAnswer
    \/ ConfirmAnswer
    \/ CmAppend
    \/ CmHandle
    \/ CmAnswer

Spec == Init /\ [][Next]_vars

\* ------------------------------------------- the functions of toolkit/utils.py
\* Longest title, and longest line typed at a prompt, given to a function called
\* on its own.
MaxLen == 3

\* Characters of the titles: letters of both cases, a digit, the underscore,
\* whitespace, punctuation, and the two characters around the dotted capital I.
TitleAlphabet == {"A", "a", "1", "_", " ", "\t", "-", ".", DOTTED_I, COMBINING_DOT}

Chars(word) ==
    CASE word = "St." -> <<"S","t",".">>
      [] word = "Louis" -> <<"L","o","u","i","s">>
      [] word = "Blues" -> <<"B","l","u","e","s">>
      [] word = "The" -> <<"T","h","e">>
      [] word = "Matrix!" -> <<"M","a","t","r","i","x","!">>
      [] word = "Spider-Man:" -> <<"S","p","i","d","e","r","-","M","a","n",":">>
      [] word = "No" -> <<"N","o">>
      [] word = "Way" -> <<"W","a","y">>
      [] word = "Home" -> <<"H","o","m","e">>
      [] word = "Messy" -> <<"M","e","s","s","y">>
      [] word = "Title" -> <<"T","i","t","l","e">>
      [] word = "Dr." -> <<"D","r",".">>
      [] word = "vs." -> <<"v","s",".">>
      [] word = "Pt." -> <<"P","t",".">>
      [] word = "Vol." -> <<"V","o","l",".">>
      [] word = "Street" -> <<"S","t","r","e","e","t">>
      [] word = "2" -> <<"2">>
      [] word = "Matrix" -> <<"M","a","t","r","i","x">>
      [] word = "(1999)" -> <<"(","1","9","9","9",")">>
      [] word = "Avatar" -> <<"A","v","a","t","a","r">>
      [] word = "(With" -> <<"(","W","i","t","h">>
      [] word = "Parentheses)" -> <<"P","a","r","e","n","t","h","e","s","e","s",")">>
      [] word = "(2023)" -> <<"(","2","0","2","3",")">>
      [] word = "Spaced" -> <<"S","p","a","c","e","d">>
      [] word = "Out" -> <<"O","u","t">>
      [] word = "(2001)" -> <<"(","2","0","0","1",")">>

\* The words joined by sep.
RECURSIVE Join(_, _)
Join(words, sep) ==
    IF words = <<>> THEN <<>>
    ELSE IF Len(words) = 1 THEN Chars(words[1])
    ELSE Chars(words[1]) \o sep \o Join(Tail(words), sep)

\* The titles of tests/test_utils.py and of the abbreviations.
ExampleTitles ==
    { Join(<<"The", "Matrix!">>, <<" ">>),
      Join(<<"Spider-Man:", "No", "Way", "Home">>, <<" ">>),
      <<" ", " ">> \o Join(<<"Messy", "Title">>, <<" ", " ", " ">>) \o <<" ", " ">>,
      Join(<<"St.", "Louis", "Blues">>, <<" ">>),
      Join(<<"Dr.", "No">>, <<" ">>),
      Join(<<"The", "vs.", "Home">>, <<" ">>),
      Join(<<"Pt.", "2">>, <<" ">>),
      Join(<<"Vol.", "2">>, <<" ">>),
      Join(<<"Street">>, <<" ">>) }

Titles == SeqsUpTo(TitleAlphabet, MaxLen) \cup ExampleTitles \cup {NoneLine}

\* The raw titles of test_extract_title_and_year.
ExampleRaws ==
    { Join(<<"The", "Matrix", "(1999)">>, <<" ">>),
      Join(<<"Avatar">>, <<" ">>),
      Join(<<"Title", "(With", "Parentheses)", "(2023)">>, <<" ">>),
      <<" ", " ", " ">> \o Join(<<"Spaced", "Out", "(2001)">>, <<" ">>) \o <<" ", " ", " ">> }

\* Raw titles: a short beginning over letters, digits, blanks and parentheses,
\* then nothing or a parenthesised group at the end, with and without blanks
\* around it, of three, four and five digits.
Raws ==
    LET beginnings == SeqsUpTo({"A", "1", " ", "(", ")"}, MaxLen)
        endings ==
            { <<>>,
              <<"(","1","9","7","9",")">>,
              <<" ","(","1","9","7","9",")">>,
              <<" "," ","(","1","9","7","9",")">>,
              <<"\t","(","1","9","7","9",")">>,
              <<" ","(","1","9","7","9",")"," ">>,
              <<" ","(","1","9","7",")">>,
              <<" ","(","1","9","7","9","0",")">>,
              <<" ","(","1","9","7","9">>,
              <<" ","(","1","9","7","9",")","A">> }
    IN  {b \o e : b \in beginnings, e \in endings} \cup ExampleRaws

\* Characters of the lines typed at the disambiguation prompt.
LineAlphabet == {"0", "1", "2", "3", "s", "S", "x", " ", "-", SUPERSCRIPT_TWO}
WordLines == {<<"e","s","c">>, <<"E","S","C">>, <<"e","s","c","a","p","e">>, <<ESC>>,
              <<" ", "2", " ">>, <<"0", "0", "2">>}
Lines == SeqsUpTo(LineAlphabet, MaxLen - 1) \cup WordLines \cup {NoneLine}

\* The candidates pick_plex_match lists before it asks.
Listings == {q \in DistinctSeqs(Catalog, MaxResults + 1) : Len(q) >= 2}

\* The raw titles and result lists pick_plex_match is called with on its own: the
\* catalog and two more movies whose titles begin with the query's.
PickCalls ==
    LET shelf == Catalog \cup
                 { Movie(<<"A","l","i","e","n"," ","4">>, 1980, "k5"),
                   Movie(<<"A","l","i","e","n"," ","R","e","s","u","r","r","e","c","t","i","o","n">>,
                         NoYear, "k6") }
    IN  {CallOf("pick_plex_match", raw, res) :
            raw \in RawTitles, res \in DistinctSeqs(shelf, MaxResults + 1)}

FunctionInit ==
    /\ pc = "function"
    /\ entry = "function"
    /\ config_ok = TRUE
    /\ collection_name = TargetName
    /\ is_pre_matched = TRUE
    /\ items = <<>>
    /\ smart_filter = None
    /\ collections = {}
    /\ AtRest
    /\ NotCalled("find_movies")
    /\ NotCalled("read_line")
    /\ fn_call \in {CallOf("normalize_title", t, <<>>) : t \in Titles}
                   \cup {CallOf("read_index_or_skip", l, q) : l \in Lines, q \in Listings}
                   \cup {CallOf("extract_title_and_year", r, <<>>) : r \in Raws}
                   \cup PickCalls

state == <<pc, collections, matcher, picker, existing, trace, output, result, cancel>>

\* normalize_title(text).
ApplyNormalize ==
    /\ fn_call.fn = "normalize_title" /\ fn_call.stage = "called"
    /\ fn_call' = [fn_call EXCEPT !.stage = "returned", !.out = normalize_title(fn_call.text)]
    /\ UNCHANGED <<entry, config_ok, collection_name, items, is_pre_matched, smart_filter, state,
                   pool, editor>>

\* normalize_title of what normalize_title returned.
ApplyNormalizeAgain ==
    /\ fn_call.fn = "normalize_title" /\ fn_call.stage = "returned"
    /\ fn_call' = [fn_call EXCEPT !.stage = "twice", !.again = normalize_title(fn_call.out)]
    /\ UNCHANGED <<entry, config_ok, collection_name, items, is_pre_matched, smart_filter, state,
                   pool, editor>>

\* extract_title_and_year(text).
ApplyExtract ==
    /\ fn_call.fn = "extract_title_and_year" /\ fn_call.stage = "called"
    /\ \E parsed \in {extract_title_and_year(fn_call.text)} :
          fn_call' = [fn_call EXCEPT !.stage = "returned", !.out = parsed.title,
                                     !.year = parsed.year]
    /\ UNCHANGED <<entry, config_ok, collection_name, items, is_pre_matched, smart_filter, state,
                   pool, editor>>

\* Lines 86-91 of pick_plex_match on one line read at the prompt over the listed
\* candidates: read_index_or_skip, then the candidate at the index.
ApplyReadIndex ==
    /\ fn_call.fn = "read_index_or_skip" /\ fn_call.stage = "called"
    /\ \E index \in {read_index_or_skip(Len(fn_call.listed), fn_call.text)} :
          fn_call' = [fn_call EXCEPT
                        !.stage = "returned",
                        !.index = index,
                        !.chosen = IF index >= 1 THEN Chosen(fn_call.listed, index) ELSE NoItem]
    /\ UNCHANGED <<entry, config_ok, collection_name, items, is_pre_matched, smart_filter, state,
                   pool, editor>>

\* pick_plex_match(raw_title, results), lines 29-91: the ranked good matches, and
\* what it returns: None without a good match, the best one when that is
\* accepted unasked, else the one the user picks by its number in the list shown.
ApplyPick ==
    /\ fn_call.fn = "pick_plex_match" /\ fn_call.stage = "called"
    /\ \E ranked \in {RankedMatches(fn_call.text, fn_call.listed)} :
       \E index \in (IF ranked = <<>> \/ AutoAccept(fn_call.text, ranked)
                     THEN {NoIndex} ELSE 1..Len(ranked)) :
          fn_call' = [fn_call EXCEPT
                        !.stage = "returned",
                        !.out = ranked,
                        !.index = index,
                        !.chosen = IF ranked = <<>> THEN NoItem
                                   ELSE IF index = NoIndex THEN ranked[1]
                                   ELSE Chosen(ranked, index)]
    /\ UNCHANGED <<entry, config_ok, collection_name, items, is_pre_matched, smart_filter, state,
                   pool, editor>>

FunctionNext ==
    \/ ApplyNormalize
    \/ ApplyNormalizeAgain
    \/ ApplyReadIndex
    \/ ApplyExtract
    \/ ApplyPick

FunctionSpec == FunctionInit /\ [][FunctionNext]_vars

\* ------------------------------------------- plex_manager.py find_movies
\* max_workers of the ThreadPoolExecutor.
PoolSize == 5
\* Longest list of titles handed to find_movies.
MaxTitles == 6

\* YEAR_PATTERN.match(title_query), r"^(.*?) \((\d{4})\)$": the two groups, or
\* nothing when the title does not end with " (dddd)".
YEAR_PATTERN(title_query) ==
    LET n == Len(title_query) IN
    IF /\ n >= 7
       /\ title_query[n - 6] = " "
       /\ title_query[n - 5] = "("
       /\ \A i \in (n - 4)..(n - 1) : IsDecimal(title_query[i])
       /\ title_query[n] = ")"
    THEN <<SubSeq(title_query, 1, n - 7), SubSeq(title_query, n - 4, n - 1)>>
    ELSE <<>>

\* library.search(title): the movies whose title contains the query, ignoring
\* case, in the order of their keys.
LibrarySearch(query) ==
    LET library == [i \in 1..4 |->
                      CHOOSE m \in Catalog : m.ratingKey = <<"k1", "k2", "k3", "k4">>[i]]
    IN  SelectSeq(library, LAMBDA m : Contains(Lower(m.title), Lower(query)))

\* search_and_match returning None rather than a pair (title_query, res).
NoPair == [title |-> <<>>, media |-> NoItem]

\* search_and_match(title_query), lines 64-94, with the search raising or not.
search_and_match(title_query, search_ok) ==
    LET match == YEAR_PATTERN(title_query)
        clean_title == IF match # <<>> THEN match[1] ELSE title_query
        year == IF match # <<>> THEN ParseInt(match[2]) ELSE NoYear
        found == LibrarySearch(clean_title)
        near == SelectSeq(found, LAMBDA res : Truthy(res.year) /\ Abs(res.year - year) <= 1)
        target == Strip(Lower(clean_title))
        exact == SelectSeq(found, LAMBDA res : Strip(Lower(res.title)) = target)
    IN  IF ~search_ok \/ found = <<>> THEN NoPair
        ELSE IF Truthy(year)
             THEN IF near # <<>> THEN [title |-> title_query, media |-> near[1]] ELSE NoPair
        ELSE IF exact # <<>> THEN [title |-> title_query, media |-> exact[1]]
        ELSE [title |-> title_query, media |-> found[1]]

\* The titles a list handed to find_movies is made of, and the lists: each a
\* stretch of the titles taken round and round.
TitleLists ==
    LET queries ==
          << <<"A","l","i","e","n"," ","(","1","9","7","9",")">>,
             <<"a","l","i","e","n","s"," ","(","1","9","8","0",")">>,
             <<"A","l","i","e","n"," ","3">>,
             <<"A","L","I","E","N","!"," ","(","1","9","8","1",")">>,
             <<"A","l","i">> >>
    IN  {[i \in 1..n |-> queries[((i + shift - 1) % Len(queries)) + 1]] :
            n \in 0..MaxTitles, shift \in 0..(Len(queries) - 1)}

PoolInit ==
    /\ pc = "find_movies"
    /\ entry = "find_movies"
    /\ config_ok = TRUE
    /\ collection_name = TargetName
    /\ is_pre_matched = TRUE
    /\ items = <<>>
    /\ smart_filter = None
    /\ collections = {}
    /\ fn_call = NoCall
    /\ AtRest
    /\ NotCalled("read_line")
    /\ titles \in TitleLists
    /\ futures = <<>>
    /\ matched = <<>>
    /\ yielded = {}

\* What neither find_movies nor read_line touches.
elsewhere == <<entry, config_ok, collection_name, items, is_pre_matched, smart_filter,
               fn_call, collections, matcher, picker, existing, trace, output, result,
               cancel>>

\* executor.map(search_and_match, titles): one future per title, submitted in the
\* order of the titles, each with its own title as the argument.
Submit ==
    /\ pc = "find_movies"
    /\ futures' = [i \in DOMAIN titles |->
                     [arg |-> titles[i], stage |-> "queued", search_ok |-> TRUE,
                      result |-> NoPair]]
    /\ pc' = "iterating"
    /\ UNCHANGED <<titles, matched, yielded, editor, elsewhere>>

\* A worker thread takes the work item at the head of the queue; there are
\* never more than max_workers threads.
Take ==
    /\ pc = "iterating"
    /\ Cardinality({i \in DOMAIN futures : futures[i].stage = "running"}) < PoolSize
    /\ \E i \in DOMAIN futures :
          /\ futures[i].stage = "queued"
          /\ \A j \in 1..(i - 1) : futures[j].stage # "queued"
          /\ futures' = [futures EXCEPT ![i].stage = "running"]
    /\ UNCHANGED <<pc, titles, matched, yielded, editor, elsewhere>>

\* A worker finishes search_and_match on its title, the search having raised or
\* not, and sets the result of its future.
Complete ==
    /\ pc = "iterating"
    /\ \E i \in DOMAIN futures : \E search_ok \in BOOLEAN :
          /\ futures[i].stage = "running"
          /\ futures' = [futures EXCEPT ![i].stage = "done",
                                        ![i].search_ok = search_ok,
                                        ![i].result = search_and_match(futures[i].arg, search_ok)]
    /\ UNCHANGED <<pc, titles, matched, yielded, editor, elsewhere>>

\* An iterator that gives the results as they complete.
AsCompleted(fs, taken) == {i \in DOMAIN fs : i \notin taken /\ fs[i].stage = "done"}

\* The iterator of executor.map: the result of the first future not taken yet,
\* once it is done.
NextResult(fs, taken) ==
    {i \in DOMAIN fs : /\ i \notin taken
                       /\ fs[i].stage = "done"
                       /\ \A j \in 1..(i - 1) : j \in taken}

\* Lines 98-100: the loop takes the next result and keeps it unless it is None.
Yield ==
    /\ pc = "iterating"
    /\ \E i \in NextResult(futures, yielded) :
          /\ yielded' = yielded \cup {i}
          /\ matched' = IF futures[i].result # NoPair
                        THEN Append(matched, futures[i].result)
                        ELSE matched
    /\ UNCHANGED <<pc, titles, futures, editor, elsewhere>>

\* Line 102: every result was taken; "return matched".
PoolReturn ==
    /\ pc = "iterating"
    /\ yielded = DOMAIN futures
    /\ pc' = "returned"
    /\ UNCHANGED <<pool, editor, elsewhere>>

PoolNext ==
    \/ Submit
    \/ Take
    \/ Complete
    \/ Yield
    \/ PoolReturn

PoolSpec == PoolInit /\ [][PoolNext]_vars

\* ------------------------------------------- input_handler.py read_line
\* Longest line typed at the prompt.
MaxLine == 4

\* What _read_char_raw returns: three printable characters, Backspace as DEL and
\* as BS, the arrows left, right and up, Option+Left, Option+Right, Ctrl+A,
\* Ctrl+E, Ctrl+U, Enter as CR and as LF, Esc, Ctrl+C, the empty string of a
\* closed input, and a tab.
ReaderKeys ==
    {"a", "b", " ", BACKSPACE, "\\x08", "\\x1b[D", "\\x1b[C", "\\x1b[A", "\\x1bb", "\\x1bf",
     "\\x01", "\\x05", "\\x15", ENTER, "\\n", ESC, CTRLC, "", "\t"}

\* while cursor_pos > 0 and buffer[cursor_pos - 1] is (or is not) a space:
\* cursor_pos -= 1.
RECURSIVE SkipLeft(_, _, _)
SkipLeft(buf, pos, spaces) ==
    IF pos > 0 /\ ((buf[pos] = " ") = spaces) THEN SkipLeft(buf, pos - 1, spaces) ELSE pos

\* while cursor_pos < len(buffer) and buffer[cursor_pos] is (or is not) a space:
\* cursor_pos += 1.
RECURSIVE SkipRight(_, _, _)
SkipRight(buf, pos, spaces) ==
    IF pos < Len(buf) /\ ((buf[pos + 1] = " ") = spaces)
    THEN SkipRight(buf, pos + 1, spaces) ELSE pos

\* A right arrow that always moves.
RightAlways(buf, pos) == pos + 1

\* Right arrow: if cursor_pos < len(buffer): cursor_pos += 1.
MoveRight(buf, pos) == IF pos < Len(buf) THEN pos + 1 ELSE pos

\* read_line is called: an empty buffer, the cursor at 0.
ReaderInit ==
    /\ pc = "read_line"
    /\ entry = "read_line"
    /\ config_ok = TRUE
    /\ collection_name = TargetName
    /\ is_pre_matched = TRUE
    /\ items = <<>>
    /\ smart_filter = None
    /\ collections = {}
    /\ fn_call = NoCall
    /\ AtRest
    /\ NotCalled("find_movies")
    /\ NotCalled("read_line")

\* One turn of the loop for a key that ends the line: Ctrl+C and a standalone Esc
\* return None, Enter returns the joined buffer.
ReturnKey ==
    /\ pc = "read_line"
    /\ \E k \in {CTRLC, ESC, ENTER, "\\n"} :
          /\ key' = k
          /\ read_result' = IF k \in {CTRLC, ESC} THEN NoneLine ELSE buffer
    /\ pc' = "returned"
    /\ UNCHANGED <<buffer, cursor_pos, pool, elsewhere>>

\* One turn of the loop for any other key, in the order of the tests of lines
\* 119-202; a key that matches none of them changes nothing.
EditKey ==
    /\ pc = "read_line"
    /\ \E k \in ReaderKeys \ {CTRLC, ESC, ENTER, "\\n"} :
          /\ k \in {"a", "b", " "} => Len(buffer) < MaxLine
          /\ key' = k
          /\ IF k \in {BACKSPACE, "\\x08"}
             THEN IF cursor_pos > 0
                  THEN /\ buffer' = SubSeq(buffer, 1, cursor_pos - 1)
                                    \o SubSeq(buffer, cursor_pos + 1, Len(buffer))
                       /\ cursor_pos' = cursor_pos - 1
                  ELSE UNCHANGED <<buffer, cursor_pos>>
             ELSE IF k = "\\x1b[D"
             THEN /\ cursor_pos' = IF cursor_pos > 0 THEN cursor_pos - 1 ELSE cursor_pos
                  /\ UNCHANGED buffer
             ELSE IF k = "\\x1b[C"
             THEN /\ cursor_pos' = MoveRight(buffer, cursor_pos)
                  /\ UNCHANGED buffer
             ELSE IF k = "\\x1b[A"
             THEN UNCHANGED <<buffer, cursor_pos>>
             ELSE IF k = "\\x1bb"
             THEN /\ cursor_pos' = SkipLeft(buffer, SkipLeft(buffer, cursor_pos, TRUE), FALSE)
                  /\ UNCHANGED buffer
             ELSE IF k = "\\x1bf"
             THEN /\ cursor_pos' = SkipRight(buffer, SkipRight(buffer, cursor_pos, FALSE), TRUE)
                  /\ UNCHANGED buffer
             ELSE IF k = "\\x01"
             THEN /\ cursor_pos' = 0
                  /\ UNCHANGED buffer
             ELSE IF k = "\\x05"
             THEN /\ cursor_pos' = Len(buffer)
                  /\ UNCHANGED buffer
             ELSE IF k = "\\x15"
             THEN /\ buffer' = <<>>
                  /\ cursor_pos' = 0
             ELSE IF k \in {"a", "b", " "}
             THEN /\ buffer' = SubSeq(buffer, 1, cursor_pos) \o <<k>>
                               \o SubSeq(buffer, cursor_pos + 1, Len(buffer))
                  /\ cursor_pos' = cursor_pos + 1
             ELSE UNCHANGED <<buffer, cursor_pos>>
    /\ UNCHANGED <<pc, read_result, pool, elsewhere>>

ReaderNext ==
    \/ EditKey
    \/ ReturnKey

ReaderSpec == ReaderInit /\ [][ReaderNext]_vars

\* ------------------------------------------------------------- properties
\* The query of the pick_plex_match call whose locals the state holds.
Query == extract_title_and_year(raw_title)
Searches == {k \in DOMAIN trace : trace[k].kind = "search"}

\* C1: in pick_plex_match, a search result whose year and the query's year are
\* both present and more than one apart is never in good_matches, whatever the
\* two titles are.
C1_YearGate ==
    \A i \in DOMAIN good_matches :
       (Query.year # NoYear /\ good_matches[i].year # NoYear)
          => Abs(Query.year - good_matches[i].year) <= 1

\* A good match whose normalized title is neither the query's nor a word-boundary
\* prefix of it, in either direction.
FuzzyOnly(item) ==
    LET search_norm == normalize_title(Query.title)
        item_norm == normalize_title(item.title)
    IN  /\ search_norm # item_norm
        /\ ~StartsWith(item_norm, search_norm \o <<" ">>)
        /\ ~StartsWith(search_norm, item_norm \o <<" ">>)

\* C2: a good match of pick_plex_match that is neither an equal title nor a
\* word-boundary prefix has both years present, at most one apart, and a
\* similarity ratio strictly above 0.85; without a year on the query there is none.
C2_FuzzyGate ==
    \A i \in DOMAIN good_matches :
       FuzzyOnly(good_matches[i]) =>
          LET r == Ratio(normalize_title(Query.title), normalize_title(good_matches[i].title)) IN
          /\ Query.year # NoYear
          /\ good_matches[i].year # NoYear
          /\ Abs(Query.year - good_matches[i].year) <= 1
          /\ r.num * 100 > 85 * r.den

\* pick_plex_match accepted a result on the fuzzy fallback alone.
C2_FuzzyAccepted ==
    \E i \in DOMAIN good_matches : FuzzyOnly(good_matches[i])

\* C3: after any prefix of the titles has been processed by _match_movies_in_plex,
\* no two matched movies have the same ratingKey.
C3_NoDuplicateKeys ==
    ~is_pre_matched =>
       \A i, j \in DOMAIN found_movies :
          i # j => found_movies[i].ratingKey # found_movies[j].ratingKey

\* Two titles were resolved to the same movie, which is matched once.
C3_SameMovieTwice ==
    /\ ~is_pre_matched
    /\ idx = 2
    /\ not_found = <<>>
    /\ Len(found_movies) = 1
    /\ Cardinality(Searches) = 2

\* C4: after Esc at a disambiguation prompt the batch is aborted: the title is not
\* recorded as unmatched, no later title is searched, and no collection is
\* created, deleted or added to.
C4_EscAbortsBatch ==
    cancel # <<>> =>
       /\ Len(not_found) = cancel[1].unmatched
       /\ \A k \in DOMAIN trace :
             k > cancel[1].at =>
                trace[k].kind \notin {"search", "createCollection", "createSmartCollection",
                                      "delete", "addItems"}

\* The step is a library.search that raised.
SearchFailedStep ==
    /\ Len(trace') = Len(trace) + 1
    /\ trace'[Len(trace')].kind = "search"
    /\ ~trace'[Len(trace')].ok

\* C5: when the search for one title raises, that title is appended to the
\* unmatched list, the loop goes on with the next title, and the batch is handed
\* back with every title searched.
C5_SearchErrorSkipsTitle ==
    /\ [][SearchFailedStep =>
            /\ not_found' = Append(not_found, items[idx + 1])
            /\ found_movies' = found_movies
            /\ idx' = idx + 1
            /\ pc' = IF idx' < Len(items) THEN "match_loop" ELSE "matched"]_vars
    /\ []((pc = "matched" /\ ~is_pre_matched) =>
             (idx = Len(items) /\ Cardinality(Searches) = Len(items)))

\* A search raised, a later title was searched all the same, and the loop ended.
C5_ErrorThenNextTitle ==
    /\ pc = "matched"
    /\ \E k, l \in Searches : k < l /\ ~trace[k].ok /\ trace[l].ok
    /\ found_movies # <<>>
    /\ not_found # <<>>

\* ---------------------------------------------------- reconciling collections
AnswerAt(k, tag) == trace[k].kind = "answer" /\ trace[k].arg = tag
PromptAt(k, tag) == trace[k].kind = "prompt" /\ trace[k].arg = tag
Answered(tag) == \E k \in DOMAIN trace : AnswerAt(k, tag)
CallsOf(kind) == {k \in DOMAIN trace : trace[k].kind = kind}
Printed(msg, n) == \E k \in DOMAIN output : output[k] = Out(msg, n)
ViaManager == entry \in {"cm_handle", "cm_append"}

\* The items handed to Append: found_movies in ops.py, the items argument in
\* CollectionManager.
Supplied == IF ViaManager THEN items ELSE found_movies

\* Append ran on an existing static collection and came back.
AppendRan ==
    /\ pc = "returned"
    /\ existing # <<>>
    /\ ~existing[1].smart
    /\ Lower(existing[1].title) = Lower(collection_name)
    /\ Answered("append") \/ entry = "cm_append"

AppendFailed ==
    \E k \in DOMAIN trace : trace[k].kind \in {"items", "addItems"} /\ ~trace[k].ok

\* C6: Append on a static collection with members M and matched items S adds
\* exactly the items of S that are not in M; no member of M is ever removed; when
\* no call fails the membership is M union S, the added count reported is
\* |S \ M|, the already-present count |S intersect M| is reported when it is not
\* zero, and no failure is reported.
C6_AppendAddsOnlyNew ==
    AppendRan =>
       LET M == existing[1].members
           S == KeysOf(Supplied)
           now == Live(existing[1]).members
           adds == CallsOf("addItems")
       IN
       /\ M \subseteq now
       /\ Cardinality(adds) <= 1
       /\ \A k \in adds : KeysOf(trace[k].arg) = S \ M /\ S \ M # {}
       /\ AppendFailed => now = M
       /\ ~AppendFailed =>
             /\ now = M \cup S
             /\ (S \ M # {}) <=> (adds # {})
             /\ IF S \ M # {} THEN Printed("Added", Cardinality(S \ M))
                ELSE Printed("NoNew", 0)
             /\ (S \cap M # {}) => Printed("AlreadyIn", Cardinality(S \cap M))
             /\ (S \cap M = {}) => \A k \in DOMAIN output : output[k].msg # "AlreadyIn"
             /\ ~Printed("FailedAppend", 0)
             /\ ViaManager /\ entry = "cm_append" =>
                   result = Counts(Cardinality(S \ M), Cardinality(S \cap M))

\* The user chose Append with one matched movie already a member and one not, and
\* the members are now both sets together.
C6_AppendedWithOverlap ==
    /\ AppendRan
    /\ Answered("append")
    /\ ~ViaManager
    /\ KeysOf(Supplied) \cap existing[1].members # {}
    /\ KeysOf(Supplied) \ existing[1].members # {}
    /\ Live(existing[1]).members = existing[1].members \cup KeysOf(Supplied)

\* C7: when process_and_create_collection is given a smart filter, the
\* Append/Overwrite/Cancel menu (shown only for an existing same-named
\* collection) never appears and addItems is never called.
C7_SmartFilterNeverAppends ==
    (entry = "start" /\ smart_filter # None) =>
       \A k \in DOMAIN trace :
          /\ ~PromptAt(k, "append_overwrite_cancel")
          /\ trace[k].kind # "addItems"

\* C8: a smart existing collection gets the Overwrite/Cancel menu, whose answer
\* is one of the two; the Append menu is for static collections only; addItems is
\* only ever called on a static collection; append_items on a smart collection
\* returns None, calls nothing on it and leaves it as it was.
C8_SmartOnlyOverwriteOrCancel ==
    /\ \A k \in DOMAIN trace :
          /\ PromptAt(k, "overwrite_cancel") =>
                /\ existing # <<>> /\ existing[1].smart
                /\ k < Len(trace) =>
                      AnswerAt(k + 1, "overwrite") \/ AnswerAt(k + 1, "cancel")
          /\ PromptAt(k, "append_overwrite_cancel") =>
                existing # <<>> /\ ~existing[1].smart
          /\ (AnswerAt(k, "append") \/ trace[k].kind \in {"items", "addItems"}) =>
                existing # <<>> /\ ~existing[1].smart
    /\ \A c \in collections : c.smart => c.members = {}
    /\ (entry = "cm_append" /\ pc = "returned" /\ existing # <<>> /\ existing[1].smart) =>
          /\ result = Returned(None)
          /\ existing[1] \in collections
          /\ Printed("CannotAppendSmart", 0)

\* The Overwrite/Cancel menu was shown for a smart collection and answered.
C8_SmartMenuAnswered ==
    /\ existing # <<>>
    /\ existing[1].smart
    /\ \E k \in DOMAIN trace : PromptAt(k, "overwrite_cancel") /\ k < Len(trace)

\* C9: the collection treated as the existing one at any prompt, and any
\* collection deleted, has the target name ignoring case, on the static path, in
\* CollectionManager and on the smart-filter path.
C9_ExistingIsExactName ==
    /\ pc \in {"smart_prompt", "existing_prompt", "cm_prompt"} =>
          existing # <<>> /\ Lower(existing[1].title) = Lower(collection_name)
    /\ \A k \in CallsOf("delete") : Lower(trace[k].name) = Lower(collection_name)

Creates == {k \in DOMAIN trace : trace[k].kind \in {"createCollection", "createSmartCollection"}}
FirstCreateAfter(k) == CHOOSE c \in Creates : c > k /\ \A d \in Creates : d > k => c <= d

\* C10: in process_and_create_collection an Overwrite answer is followed at once
\* by the delete of the existing collection; a create comes after it only if the
\* delete went through; and the next create is createSmartCollection with the
\* supplied filter after the smart prompt, createCollection with the matched
\* movies after the static menu, under the target name.
C10_OverwriteDeletesThenCreates ==
    entry = "start" =>
       \A k \in DOMAIN trace :
          AnswerAt(k, "overwrite") =>
             /\ k > 1 /\ k < Len(trace)
             /\ trace[k + 1].kind = "delete"
             /\ \A c \in Creates : c > k => (c > k + 1 /\ trace[k + 1].ok)
             /\ (\E c \in Creates : c > k) =>
                   LET c == FirstCreateAfter(k) IN
                   /\ trace[c].name = collection_name
                   /\ IF PromptAt(k - 1, "smart_overwrite")
                      THEN trace[c].kind = "createSmartCollection"
                           /\ trace[c].arg = smart_filter
                      ELSE trace[c].kind = "createCollection"
                           /\ trace[c].arg = found_movies

\* Overwrite was chosen at the static menu and the collection was created anew.
C10_OverwrittenAndCreated ==
    /\ entry = "start"
    /\ \E k \in DOMAIN trace :
          /\ AnswerAt(k, "overwrite")
          /\ trace[k + 1].kind = "delete" /\ trace[k + 1].ok
          /\ \E c \in CallsOf("createCollection") : c > k /\ trace[c].ok

\* ------------------------------------------------------ confirmation and cancel
Mutating == {"delete", "createCollection", "createSmartCollection", "fallbackPost", "addItems"}

\* The line typed for the answer at k is a "y", blanks and case aside.
TypedYes(k) ==
    /\ trace[k].kind = "answer"
    /\ trace[k].name # NoneLine
    /\ Lower(Strip(trace[k].name)) = <<"y">>

\* C11: createCollection is only ever called right after the user typed "y" at the
\* final confirmation prompt; when no same-named collection exists, any other
\* answer to that prompt, or Esc, ends the operation with no call that changes the
\* catalog.
C11_CreateOnlyAfterYes ==
    entry = "start" =>
       /\ \A c \in CallsOf("createCollection") :
             c > 2 /\ PromptAt(c - 2, "confirm") /\ TypedYes(c - 1)
       /\ \A k \in DOMAIN trace :
             (PromptAt(k, "confirm") /\ k < Len(trace) /\ ~TypedYes(k + 1) /\ existing = <<>>) =>
                /\ pc = "returned"
                /\ Len(trace) = k + 1
                /\ Printed("Aborted", 0)
                /\ smart_filter = None => \A j \in DOMAIN trace : trace[j].kind \notin Mutating

\* With no same-named collection, the user confirmed with "y" and the collection
\* was created.
C11_ConfirmedAndCreated ==
    /\ entry = "start"
    /\ smart_filter = None
    /\ existing = <<>>
    /\ pc = "returned"
    /\ \E c \in CallsOf("createCollection") : trace[c].ok /\ TypedYes(c - 1)

\* The answer at k is an Overwrite given at the Append/Overwrite/Cancel menu (or
\* its Overwrite/Cancel form), and the delete that follows went through.
MenuOverwriteAt(k) ==
    /\ AnswerAt(k, "overwrite")
    /\ k > 1
    /\ PromptAt(k - 1, "append_overwrite_cancel") \/ PromptAt(k - 1, "overwrite_cancel")
    /\ k < Len(trace) /\ trace[k + 1].kind = "delete" /\ trace[k + 1].ok

\* C12: after Overwrite at the Append/Overwrite/Cancel menu, no further
\* confirmation is asked, and an operation that deleted the old collection and has
\* returned did issue the create call.
C12_OverwriteNeedsNoConfirmation ==
    entry = "start" =>
       \A k \in DOMAIN trace :
          MenuOverwriteAt(k) =>
             /\ \A j \in DOMAIN trace : j > k => ~PromptAt(j, "confirm")
             /\ pc = "returned" => \E c \in CallsOf("createCollection") : c > k

\* C13: when both ways of creating the smart collection failed and the user
\* declined the static collection offered instead, no prompt is shown afterwards
\* and no call that creates or changes a collection is issued.
C13_DeclineEndsCleanly ==
    \A k \in DOMAIN trace :
       AnswerAt(k, "decline") =>
          \A j \in DOMAIN trace :
             j > k => trace[j].kind # "prompt" /\ trace[j].kind \notin Mutating

\* C14: once the user has answered Cancel at the smart overwrite prompt, at the
\* Append/Overwrite/Cancel menu or at the final confirmation, no delete, create
\* or addItems call is issued in the rest of process_and_create_collection.
C14_CancelStopsMutation ==
    entry = "start" =>
       \A k \in DOMAIN trace :
          (AnswerAt(k, "cancel") \/ AnswerAt(k, "abort")) =>
             \A j \in DOMAIN trace : j > k => trace[j].kind \notin Mutating

\* ---------------------------------------------------------- disambiguation
\* The results of the last search whose normalized title is the query's.
SameTitleResults ==
    {i \in DOMAIN results :
        normalize_title(results[i].title) = normalize_title(Query.title)}
LastSearch == CHOOSE k \in Searches : \A j \in Searches : j <= k

\* C15: for a query without a year, when two or more results have the query's
\* normalized title, all of them are good matches and the user is asked to choose:
\* the search is followed by the disambiguation prompt.
C15_EqualTitlesArePrompted ==
    (raw_title # <<>> /\ Query.year = NoYear /\ Cardinality(SameTitleResults) >= 2) =>
       /\ \A i \in SameTitleResults :
             \E g \in DOMAIN good_matches : good_matches[g] = results[i]
       /\ LastSearch < Len(trace)
       /\ PromptAt(LastSearch + 1, "pick")

\* The last search succeeded and pick_plex_match returned without asking.
ReturnedUnprompted ==
    /\ raw_title # <<>>
    /\ trace[LastSearch].ok
    /\ LastSearch = Len(trace) \/ ~PromptAt(LastSearch + 1, "pick")

\* item is a one-sided subtitle match of the query, and the only good match that
\* is one on that side.
SoleSubtitle(item) ==
    LET search_norm == normalize_title(Query.title)
        longer(m) == StartsWith(normalize_title(m.title), search_norm \o <<" ">>)
        shorter(m) == StartsWith(search_norm, normalize_title(m.title) \o <<" ">>)
        only(rule(_)) == \A g \in DOMAIN good_matches :
                            rule(good_matches[g]) => good_matches[g] = item
    IN  \/ longer(item) /\ only(longer)
        \/ shorter(item) /\ only(shorter)

\* C16: pick_plex_match asks the user only with two or more good matches whose
\* best is not the query's title; with none it returns None and with one it
\* returns it, unasked; with several it returns unasked only the best match, and
\* only if that one has the query's normalized title or is the sole one-sided
\* subtitle match.
C16_PromptOnlyWhenAmbiguous ==
    /\ pc = "pick_prompt" =>
          /\ Len(good_matches) >= 2
          /\ normalize_title(good_matches[1].title) # normalize_title(Query.title)
    /\ ReturnedUnprompted =>
          /\ good_matches = <<>> =>
                not_found # <<>> /\ not_found[Len(not_found)] = raw_title
          /\ good_matches # <<>> => good_matches[1].ratingKey \in seen_rating_keys \cup {""}
          /\ Len(good_matches) >= 2 =>
                \/ normalize_title(good_matches[1].title) = normalize_title(Query.title)
                \/ SoleSubtitle(good_matches[1])

\* Several good matches, none with the query's title: the user is being asked.
C16_AskedAmongSeveral ==
    /\ pc = "pick_prompt"
    /\ Len(good_matches) >= 2
    /\ PromptAt(Len(trace), "pick")

\* The line, blanks at its ends aside, is the decimal numeral of k (below ten),
\* possibly with leading zeros.
IsNumeralOf(line, k) ==
    LET val == Strip(line) IN
    /\ val # <<>>
    /\ val[Len(val)] = Digits[k + 1]
    /\ \A i \in 1..(Len(val) - 1) : val[i] = "0"

\* C17: at a prompt over n listed candidates read_index_or_skip gives None, an
\* integer in 1..n, or asks again, and never raises; after the numeral k
\* pick_plex_match returns the candidate listed at position k.
C17_IndexOrReprompt ==
    (fn_call.fn = "read_index_or_skip" /\ fn_call.stage = "returned") =>
       LET n == Len(fn_call.listed) IN
       /\ fn_call.index \in {NoIndex, InvalidIndex} \cup 1..n
       /\ fn_call.index >= 1 =>
             /\ IsNumeralOf(fn_call.text, fn_call.index)
             /\ fn_call.chosen = fn_call.listed[fn_call.index]
       /\ fn_call.index < 1 => fn_call.chosen = NoItem

\* ------------------------------------------------------------ normalize_title
Normalized == fn_call.fn = "normalize_title" /\ fn_call.stage \in {"returned", "twice"}

\* C18: normalize_title is idempotent: applied to its own result it returns it
\* unchanged.
C18_NormalizeIdempotent ==
    (fn_call.fn = "normalize_title" /\ fn_call.stage = "twice") =>
       fn_call.again = fn_call.out

\* The words of s: its maximal runs without whitespace.
RECURSIVE Words(_)
Words(s) ==
    LET t == LStrip(s) IN
    IF t = <<>> THEN <<>>
    ELSE LET n == IF \E i \in DOMAIN t : IsSpace(t[i])
                  THEN (CHOOSE i \in DOMAIN t :
                           IsSpace(t[i]) /\ \A j \in 1..(i - 1) : ~IsSpace(t[j])) - 1
                  ELSE Len(t)
         IN  <<SubSeq(t, 1, n)>> \o Words(SubSeq(t, n + 1, Len(t)))

\* The abbreviations and what they stand for.
Abbreviations ==
    { [short |-> <<"d","r",".">>, long |-> <<"d","r","i","v","e">>],
      [short |-> <<"s","t",".">>, long |-> <<"s","t","r","e","e","t">>],
      [short |-> <<"v","s",".">>, long |-> <<"v","e","r","s","u","s">>],
      [short |-> <<"p","t",".">>, long |-> <<"p","a","r","t">>],
      [short |-> <<"v","o","l",".">>, long |-> <<"v","o","l","u","m","e">>] }

\* C19: normalize_title turns the whole words dr., st., vs., pt. and vol. into
\* drive, street, versus, part and volume, and leaves a longer word that contains
\* one of them alone; "St. Louis Blues" becomes "street louis blues".
C19_AbbreviationsExpanded ==
    (Normalized /\ fn_call.text # NoneLine) =>
       LET given == Words(fn_call.text)
           got == Words(fn_call.out)
       IN
       /\ fn_call.text = Join(<<"St.", "Louis", "Blues">>, <<" ">>) =>
             fn_call.out = <<"s","t","r","e","e","t"," ","l","o","u","i","s"," ",
                             "b","l","u","e","s">>
       /\ fn_call.text = Join(<<"Street">>, <<" ">>) =>
             fn_call.out = <<"s","t","r","e","e","t">>
       /\ Len(given) = Len(got) =>
             \A i \in DOMAIN given :
                \A a \in Abbreviations : Lower(given[i]) = a.short => got[i] = a.long

\* The words, each lower-cased after its characters that are neither word
\* characters nor whitespace were removed, those left empty dropped, joined by
\* one space.
RECURSIVE JoinCleaned(_)
JoinCleaned(words) ==
    IF words = <<>> THEN <<>>
    ELSE LET word == Lower(SelectSeq(Head(words), IsWord))
             rest == JoinCleaned(Tail(words))
         IN  IF word = <<>> THEN rest
             ELSE IF rest = <<>> THEN word
             ELSE word \o <<" ">> \o rest

Extracted == fn_call.fn = "extract_title_and_year" /\ fn_call.stage = "returned"

\* t ends with a blank followed by a parenthesised group of exactly four digits.
EndsWithSpacedYear(t) ==
    /\ Len(t) >= 7
    /\ IsSpace(t[Len(t) - 6])
    /\ t[Len(t) - 5] = "("
    /\ \A i \in (Len(t) - 4)..(Len(t) - 1) : t[i] \in DigitSet
    /\ t[Len(t)] = ")"

\* C21: extract_title_and_year trims the text; when the trimmed text ends with a
\* blank followed by a parenthesised group of exactly four digits it returns the
\* rest, trimmed, and that number; otherwise it returns the whole trimmed text and
\* None, so an earlier parenthetical or a group of another length stays in the
\* title.
C21_TrailingYear ==
    Extracted =>
       LET t == Strip(fn_call.text) IN
       IF EndsWithSpacedYear(t)
       THEN /\ fn_call.out = Strip(SubSeq(t, 1, Len(t) - 6))
            /\ fn_call.year = ParseInt(SubSeq(t, Len(t) - 4, Len(t) - 1))
       ELSE /\ fn_call.out = t
            /\ fn_call.year = NoYear

\* ------------------------------------------------------------ failing calls
\* What the operation prints when a catalog call failed.
Diagnostics ==
    {"CouldNotConnect", "ErrorSearching", "FailedAppend", "FailedCreate", "FailedSmart",
     "FallbackFailed", "SmartCreatedFallback"}

\* C22: no failure of a catalog call made during process_and_create_collection
\* (connecting, collection lookup, title search, delete, createCollection,
\* createSmartCollection, addItems) leaves it as an exception: every failed call
\* is followed by a printed diagnostic and the operation goes on to a normal
\* return.
C22_NoFailurePropagates ==
    entry = "start" =>
       /\ pc # "raised"
       /\ \A k \in DOMAIN trace :
             ~trace[k].ok => \E j \in DOMAIN output : output[j].msg \in Diagnostics

\* The operation has begun, and the token or the URL is missing, or the connection
\* or the library lookup failed.
ConnectFailed ==
    /\ entry = "start"
    /\ pc # "start"
    /\ ~config_ok \/ \E k \in CallsOf("connect") : ~trace[k].ok

\* C23: when the Plex token or URL is missing, the connection or authentication
\* fails, or the library is not found, process_and_create_collection searches no
\* title, looks up and changes no collection, asks nothing, connects at most
\* once, reports the failure and returns.
C23_ConnectFailureStops ==
    ConnectFailed =>
       /\ pc = "returned"
       /\ Cardinality(CallsOf("connect")) = (IF config_ok THEN 1 ELSE 0)
       /\ \A k \in DOMAIN trace : trace[k].kind = "connect"
       /\ output = <<Out(IF config_ok THEN "CouldNotConnect" ELSE "MissingTokenOrUrl", 0)>>
       /\ collections \in InitialCollections
       /\ found_movies = <<>> /\ not_found = <<>> /\ idx = 0

\* The library was not found although titles were waiting to be searched.
C23_LibraryNotFound ==
    /\ ConnectFailed
    /\ pc = "returned"
    /\ items # <<>>
    /\ ~is_pre_matched
    /\ \E k \in CallsOf("connect") : trace[k].arg = "no_library"

\* ------------------------------------------------------------- find_movies
\* What a sequential find_movies gives for the first n titles, the searches
\* failing where they failed: the pairs that are not None, in the order of the
\* titles.
RECURSIVE InOrder(_)
InOrder(n) ==
    IF n = 0 THEN <<>>
    ELSE LET pair == search_and_match(titles[n], futures[n].search_ok) IN
         IF pair = NoPair THEN InOrder(n - 1) ELSE Append(InOrder(n - 1), pair)

\* C24: find_movies collects the matches in the order of the titles, whatever
\* the order in which the workers finish: after n results were taken, matched is
\* what the first n titles give one after the other, each match paired with the
\* title it was searched for; it returns when every title's result was taken.
C24_PoolKeepsOrder ==
    (entry = "find_movies" /\ pc # "find_movies") =>
       /\ yielded = 1..Cardinality(yielded)
       /\ matched = InOrder(Cardinality(yielded))
       /\ \A k \in DOMAIN matched :
             \E i \in yielded :
                /\ matched[k].title = titles[i]
                /\ matched[k] = search_and_match(titles[i], TRUE)
       /\ \A k, l \in DOMAIN matched :
             k < l => \E i, j \in yielded :
                         i < j /\ matched[k].title = titles[i] /\ matched[l].title = titles[j]
       /\ pc = "returned" => yielded = DOMAIN titles
       /\ Cardinality({i \in DOMAIN futures : futures[i].stage = "running"}) <= PoolSize

\* More titles than workers: a match has been collected, a later title's search
\* has finished with a match while an earlier one is still running, and the last
\* title is still waiting for a worker.
C24_LaterFinishedFirst ==
    /\ entry = "find_movies"
    /\ Len(titles) > PoolSize
    /\ \E i, j \in DOMAIN futures :
          /\ i < j
          /\ futures[i].stage = "running"
          /\ futures[j].stage = "done" /\ futures[j].result # NoPair
          /\ futures[Len(futures)].stage = "queued"
    /\ Len(matched) >= 1

\* ------------------------------------------------------------ accounting
\* C25: after _match_movies_in_plex has processed k titles, each of them added one
\* movie to the matched list, or was appended to the unmatched list, or resolved
\* to a movie already accepted and was collapsed: the two lists never hold more
\* than k entries, a title is missing from both only when a movie was accepted
\* before it, and a title whose match was returned unasked is unmatched when
\* there was no match and otherwise has its movie among the matched ones.
C25_EveryTitleAccounted ==
    (entry = "start" /\ ~is_pre_matched /\ pc \in {"match_loop", "pick_prompt", "matched"}) =>
       /\ Len(found_movies) + Len(not_found) <= idx
       /\ Len(found_movies) + Len(not_found) < idx => found_movies # <<>>
       /\ (ReturnedUnprompted /\ idx >= 1) =>
             IF good_matches = <<>>
             THEN not_found # <<>> /\ not_found[Len(not_found)] = raw_title
             ELSE \E i \in DOMAIN found_movies :
                     found_movies[i].ratingKey = good_matches[1].ratingKey

\* ---------------------------------------------------------- fallback chain
RaisedAt(k, reason) == trace[k].kind = "raised" /\ trace[k].arg = reason

\* C26: createSmartCollection is tried first and once; the direct-API fallback is
\* attempted only, and always, right after it failed for the missing capability;
\* the static collection is offered only, and always, right after that fallback
\* failed too; a failure of createSmartCollection for another reason is followed
\* by neither and the operation returns.
C26_FallbackChainOrdered ==
    entry = "start" =>
       /\ Cardinality(CallsOf("createSmartCollection")) <= 1
       /\ \A k \in DOMAIN trace :
             /\ trace[k].kind = "fallbackPost" =>
                   /\ k > 2
                   /\ trace[k - 2].kind = "createSmartCollection" /\ ~trace[k - 2].ok
                   /\ RaisedAt(k - 1, "no_capability")
                   /\ ~trace[k].ok => (k < Len(trace) /\ PromptAt(k + 1, "static_offer"))
             /\ PromptAt(k, "static_offer") =>
                   k > 1 /\ trace[k - 1].kind = "fallbackPost" /\ ~trace[k - 1].ok
             /\ RaisedAt(k, "no_capability") =>
                   k < Len(trace) /\ trace[k + 1].kind = "fallbackPost"
             /\ (trace[k].kind = "raised" /\ ~RaisedAt(k, "no_capability")) =>
                   /\ k = Len(trace)
                   /\ pc = "returned"
                   /\ Printed("FailedSmart", 0)
                   /\ \A j \in DOMAIN trace :
                         trace[j].kind # "fallbackPost" /\ ~PromptAt(j, "static_offer")

\* The capability was missing, the fallback failed as well, and the user took the
\* static collection offered.
C26_StaticOfferTaken ==
    /\ entry = "start"
    /\ \E k \in DOMAIN trace :
          /\ RaisedAt(k, "no_capability")
          /\ trace[k + 1].kind = "fallbackPost" /\ ~trace[k + 1].ok
          /\ PromptAt(k + 2, "static_offer")
          /\ k + 2 < Len(trace) /\ AnswerAt(k + 3, "static")

\* ------------------------------------------------------------------ ranking
Picked == fn_call.fn = "pick_plex_match" /\ fn_call.stage = "returned"

\* The results of the call that are good matches for its raw title.
GoodOnes ==
    LET q == extract_title_and_year(fn_call.text) IN
    {fn_call.listed[i] : i \in {j \in DOMAIN fn_call.listed :
        IsGoodMatch(normalize_title(q.title), q.year, fn_call.listed[j])}}

\* a comes before b in the ranking: its ratio to the query is larger, or the two
\* are equal and the search returned a first.
RanksBefore(a, b) ==
    LET ra == Ratio(SearchNorm(fn_call.text), normalize_title(a.title))
        rb == Ratio(SearchNorm(fn_call.text), normalize_title(b.title))
        at(m) == CHOOSE i \in DOMAIN fn_call.listed : fn_call.listed[i] = m
    IN  \/ ra.num * rb.den > rb.num * ra.den
        \/ ra.num * rb.den = rb.num * ra.den /\ at(a) < at(b)

\* C27: the good matches are listed by similarity ratio to the query, the larger
\* first, those of equal ratio in the order the search returned them; the list
\* holds the good matches and nothing else; position 1 is the best candidate and
\* the number k picks the candidate ranked k-th.
C27_RankedByRatio ==
    Picked =>
       LET ranked == fn_call.out IN
       /\ Len(ranked) = Cardinality(GoodOnes)
       /\ \A i \in DOMAIN ranked :
             /\ ranked[i] \in GoodOnes
             /\ Cardinality({g \in GoodOnes : RanksBefore(g, ranked[i])}) = i - 1
       /\ \A i, j \in DOMAIN ranked : i < j => RanksBefore(ranked[i], ranked[j])
       /\ fn_call.index >= 1 =>
             /\ fn_call.chosen \in GoodOnes
             /\ Cardinality({g \in GoodOnes : RanksBefore(g, fn_call.chosen)}) = fn_call.index - 1

\* The user picked the second of three candidates; the search had returned them
\* in another order than the one they were listed in.
C27_PickedSecondOfThree ==
    /\ Picked
    /\ Len(fn_call.out) = 3
    /\ fn_call.out # fn_call.listed
    /\ fn_call.index = 2
    /\ \E i, j \in DOMAIN fn_call.out :
          i < j /\ ~RanksBefore(fn_call.out[j], fn_call.out[i])
                /\ Ratio(SearchNorm(fn_call.text), normalize_title(fn_call.out[i].title))
                   = Ratio(SearchNorm(fn_call.text), normalize_title(fn_call.out[j].title))

\* The item's normalized title is the query's.
ExactFor(item) == normalize_title(item.title) = SearchNorm(fn_call.text)

\* C28: when a good match has the normalized title of the query, pick_plex_match
\* returns an item of that normalized title and asks nothing; so an item of
\* another title is returned unasked only when no good match is exact.
C28_ExactMatchUnasked ==
    Picked =>
       /\ (\E g \in GoodOnes : ExactFor(g)) =>
             /\ fn_call.index = NoIndex
             /\ fn_call.chosen \in GoodOnes
             /\ ExactFor(fn_call.chosen)
       /\ (fn_call.index = NoIndex /\ fn_call.chosen # NoItem /\ ~ExactFor(fn_call.chosen)) =>
             \A g \in GoodOnes : ~ExactFor(g)

\* The exact match was returned unasked although the search had returned another
\* good match before it.
C28_ExactBehindAnother ==
    /\ Picked
    /\ Len(fn_call.out) >= 2
    /\ fn_call.index = NoIndex
    /\ ExactFor(fn_call.chosen)
    /\ \E i, j \in DOMAIN fn_call.listed :
          /\ i < j
          /\ fn_call.listed[j] = fn_call.chosen
          /\ fn_call.listed[i] \in GoodOnes
          /\ ~ExactFor(fn_call.listed[i])

\* ------------------------------------------- handle_existing_collection's answer
HandleReturned(value) ==
    entry = "cm_handle" /\ pc = "returned" /\ result = Returned(value)

\* C29: handle_existing_collection returns 'overwrite' only when the collection
\* it found has been deleted: after a failed delete it does not return
\* 'overwrite', so the collection is no longer on the server when the caller
\* goes on to create one of that name.
C29_OverwriteOnlyAfterDelete ==
    HandleReturned("overwrite") =>
       /\ \A c \in collections : c.id # existing[1].id
       /\ \A k \in DOMAIN trace : trace[k].kind = "delete" => trace[k].ok

\* ------------------------------------------------------------ the line editor
\* C30: in read_line, after any sequence of keys the cursor is inside the
\* buffer, 0 <= cursor_pos <= len(buffer); Enter returns the buffer as it is
\* then, and Esc or Ctrl+C returns None whatever the buffer holds; nothing else
\* ends the prompt.
C30_CursorInsideBuffer ==
    /\ 0 <= cursor_pos /\ cursor_pos <= Len(buffer)
    /\ (entry = "read_line" /\ pc = "returned") =>
          /\ key \in {ENTER, "\\n", ESC, CTRLC}
          /\ key \in {ENTER, "\\n"} => read_result = buffer
          /\ key \in {ESC, CTRLC} => read_result = NoneLine
    /\ (entry = "read_line" /\ pc # "returned") => read_result = NoneLine

\* Enter returned a line of two words that was left with the cursor between them.
C30_ReturnedFromTheMiddle ==
    /\ entry = "read_line" /\ pc = "returned"
    /\ key = ENTER
    /\ read_result = <<"b", "a", " ", "a">>
    /\ cursor_pos = 2

====
